---------------------------- MODULE Spec2Model ----------------------------
(***************************************************************************)
(* Model of the SSD1322 display controller emulation of oled-emulator:     *)
(* BaseDevice (VRAM and the dirty region), MemoryHelper (nibble packing)   *)
(* and SSD1322 (device/ssd1322.go: command state machine, payload writes,  *)
(* reset), and of the SPIBridge and command builders in front of it         *)
(* (protocol/spi.go, protocol/commands.go), and of the animation package's  *)
(* Animator.                                                               *)
(*                                                                         *)
(* Every method of the code is a pure operator from a device record (and   *)
(* the call's arguments) to a result record; the actions Call... apply one *)
(* method to the device variable.  Bytes are 0..255; Go's byte operators   *)
(* &, |, <<, >> are BitAnd, BitOr, ShiftLeft, ShiftRight at width 8.       *)
(***************************************************************************)
EXTENDS Integers, Sequences, FiniteSets, TLC

VARIABLES
    ssd,      \* the *SSD1322 object: its fields, and those of its *BaseDevice
    last,     \* the last call made on it: its arguments and what it returned
    written,  \* history since construction / the last ClearDirtyRegion: the
              \* pixels stored, whether Reset ran, whether MarkDirty was called
    left,     \* number of calls the client still makes
    sb,       \* the *SPIBridge object in front of the device
    anim,     \* the *Animator object
    animHist, \* history: the calls made of each animation function and of onFrame
    tween,    \* a *Tween object
    tweenHist, \* history: the calls made of the tween's onComplete callback
    fb,       \* the *FrameBuffer object on top of the device
    mono,     \* a *MemoryHelper of the 1-bit vertical format and its VRAM
    monoHist, \* history: the last successful SetPixelVertical call
    rt,       \* the goroutines, tickers and unfinished Start/Stop calls of
              \* the animator
    par,      \* a *ParallelTween object
    parHist   \* history: the calls made of the parallel tween's onComplete

vars == <<ssd, last, written, left, sb, anim, animHist, tween, tweenHist, fb,
          mono, monoHist, rt, par, parHist>>

\* the objects other than the device, than the bridge, than the animator
notDevice ==
    <<sb, anim, animHist, tween, tweenHist, fb, mono, monoHist, rt, par, parHist>>
notBridge ==
    <<anim, animHist, tween, tweenHist, fb, mono, monoHist, rt, par, parHist>>
notAnimator ==
    <<ssd, written, sb, tween, tweenHist, fb, mono, monoHist, rt, par, parHist>>
notTween ==
    <<ssd, written, sb, anim, animHist, fb, mono, monoHist, rt, par, parHist>>
notFrameBuffer ==
    <<sb, anim, animHist, tween, tweenHist, mono, monoHist, rt, par, parHist>>
notMono ==
    <<ssd, written, sb, anim, animHist, tween, tweenHist, fb, rt, par, parHist>>
notParallel ==
    <<ssd, written, sb, anim, animHist, tween, tweenHist, fb, mono, monoHist, rt>>
notRuntime ==
    <<ssd, written, sb, tween, tweenHist, fb, mono, monoHist, par, parHist>>

---------------------------------------------------------------------------
(* With(e, F) is F(e) with e evaluated once: a local variable of the code *)

With(e, F(_)) == CHOOSE r \in {F(v) : v \in {e}} : TRUE

---------------------------------------------------------------------------
(* Byte arithmetic *)

\* a & b, bit by bit
BitAnd(a, b) ==
      (a % 2) * (b % 2)
    + ((a \div 2) % 2) * ((b \div 2) % 2) * 2
    + ((a \div 4) % 2) * ((b \div 4) % 2) * 4
    + ((a \div 8) % 2) * ((b \div 8) % 2) * 8
    + ((a \div 16) % 2) * ((b \div 16) % 2) * 16
    + ((a \div 32) % 2) * ((b \div 32) % 2) * 32
    + ((a \div 64) % 2) * ((b \div 64) % 2) * 64
    + ((a \div 128) % 2) * ((b \div 128) % 2) * 128

BitOr(a, b) == a + b - BitAnd(a, b)

ShiftLeft(a, n) == (a * (2 ^ n)) % 256

ShiftRight(a, n) == a \div (2 ^ n)

---------------------------------------------------------------------------
(* Command codes (device/ssd1322.go) *)

CmdSetColumnAddress == 21
CmdSetRowAddress == 117
CmdWriteRAM == 92
CmdReadRAM == 93
CmdSetContrast == 193
CmdMasterContrast == 199
CmdSetRemap == 160
CmdSetStartLine == 161
CmdDisplayOffset == 162
CmdDisplayMode == 164
CmdInvertDisplay == 166
CmdSetMultiplexRatio == 202
CmdSleepMode == 174
CmdNormalDisplay == 175
CmdHorizontalScroll == 38
CmdContinuousScroll == 39
CmdDeactivateScroll == 46
CmdActivateScroll == 47
CmdSetClockDivider == 179
CmdSetPhaseLength == 177
CmdEnhanceDisplay == 180
CmdSetPrecharge == 187
CmdSetVCOMH == 190
CmdGrayscaleTable == 185
CmdCommandLock == 253

\* the argument bytes of the lock-control command
LockArg == 176
UnlockArg == 177

---------------------------------------------------------------------------
(* BaseDevice: VRAM and the dirty region *)

\* internal columns of the controller, and the column offset of the display
InternalColumns == 480
ColumnOffset == 28

\* the device the programs construct: NewSSD1322(256, 64)
DevWidth == 256
DevHeight == 64

\* len(vram) for the HorizontalNibble format
allocateVRAM(height) == (InternalColumns * height) \div 2

\* VRAM is a byte array of allocateVRAM(height) zero-initialised bytes.  It is
\* kept as the function from the offsets of its non-zero bytes to their
\* values; every other offset below the length holds 0.
EmptyVRAM == [j \in {} |-> 0]

VramGet(vram, i) == IF i \in DOMAIN vram THEN vram[i] ELSE 0

VramSet(vram, i, b) ==
    IF b = 0
    THEN [j \in (DOMAIN vram) \ {i} |-> vram[j]]
    ELSE [j \in (DOMAIN vram) \cup {i} |-> IF j = i THEN b ELSE vram[j]]

Width(s) == s.width
Height(s) == s.height

GetDirtyRegion(s) ==
    IF ~s.hasDirty
    THEN <<-1, -1, -1, -1>>
    ELSE <<s.dirtyX0, s.dirtyY0, s.dirtyX1, s.dirtyY1>>

ClearDirtyRegion(s) ==
    [s EXCEPT !.hasDirty = FALSE,
              !.dirtyX0 = -1, !.dirtyY0 = -1, !.dirtyX1 = -1, !.dirtyY1 = -1]

\* MarkDirty that adopts the new rectangle instead of merging it
MarkDirtyReplace(s, ax0, ay0, ax1, ay1) ==
    [s EXCEPT !.dirtyX0 = IF ax0 < 0 THEN 0 ELSE ax0,
              !.dirtyY0 = IF ay0 < 0 THEN 0 ELSE ay0,
              !.dirtyX1 = IF ax1 >= s.width THEN s.width - 1 ELSE ax1,
              !.dirtyY1 = IF ay1 >= s.height THEN s.height - 1 ELSE ay1,
              !.hasDirty = TRUE]

\* MarkDirty whose merge has its comparisons inverted: it keeps the overlap
MarkDirtyIntersect(s, ax0, ay0, ax1, ay1) ==
    LET x0 == IF ax0 < 0 THEN 0 ELSE ax0
        y0 == IF ay0 < 0 THEN 0 ELSE ay0
        x1 == IF ax1 >= s.width THEN s.width - 1 ELSE ax1
        y1 == IF ay1 >= s.height THEN s.height - 1 ELSE ay1
    IN  IF ~s.hasDirty
        THEN [s EXCEPT !.dirtyX0 = x0, !.dirtyY0 = y0,
                       !.dirtyX1 = x1, !.dirtyY1 = y1, !.hasDirty = TRUE]
        ELSE [s EXCEPT !.dirtyX0 = IF x0 > @ THEN x0 ELSE @,
                       !.dirtyY0 = IF y0 > @ THEN y0 ELSE @,
                       !.dirtyX1 = IF x1 < @ THEN x1 ELSE @,
                       !.dirtyY1 = IF y1 < @ THEN y1 ELSE @]

\* MarkDirty that adopts the first rectangle without setting hasDirty
MarkDirtyNoFlag(s, ax0, ay0, ax1, ay1) ==
    LET x0 == IF ax0 < 0 THEN 0 ELSE ax0
        y0 == IF ay0 < 0 THEN 0 ELSE ay0
        x1 == IF ax1 >= s.width THEN s.width - 1 ELSE ax1
        y1 == IF ay1 >= s.height THEN s.height - 1 ELSE ay1
    IN  IF ~s.hasDirty
        THEN [s EXCEPT !.dirtyX0 = x0, !.dirtyY0 = y0,
                       !.dirtyX1 = x1, !.dirtyY1 = y1]
        ELSE [s EXCEPT !.dirtyX0 = IF x0 < @ THEN x0 ELSE @,
                       !.dirtyY0 = IF y0 < @ THEN y0 ELSE @,
                       !.dirtyX1 = IF x1 > @ THEN x1 ELSE @,
                       !.dirtyY1 = IF y1 > @ THEN y1 ELSE @]

MarkDirty(s, ax0, ay0, ax1, ay1) ==
    LET x0 == IF ax0 < 0 THEN 0 ELSE ax0
        y0 == IF ay0 < 0 THEN 0 ELSE ay0
        x1 == IF ax1 >= s.width THEN s.width - 1 ELSE ax1
        y1 == IF ay1 >= s.height THEN s.height - 1 ELSE ay1
    IN  IF ~s.hasDirty
        THEN [s EXCEPT !.dirtyX0 = x0, !.dirtyY0 = y0,
                       !.dirtyX1 = x1, !.dirtyY1 = y1, !.hasDirty = TRUE]
        ELSE [s EXCEPT !.dirtyX0 = IF x0 < @ THEN x0 ELSE @,
                       !.dirtyY0 = IF y0 < @ THEN y0 ELSE @,
                       !.dirtyX1 = IF x1 > @ THEN x1 ELSE @,
                       !.dirtyY1 = IF y1 > @ THEN y1 ELSE @]

---------------------------------------------------------------------------
(* MemoryHelper: HorizontalNibble packing *)

\* PixelToByteOffsetNibble without the bounds test
PixelToByteOffsetNibbleUnchecked(s, x, y) ==
    [err |-> FALSE,
     byteOffset |-> (y * InternalColumns + x + ColumnOffset) \div 2,
     nibbleIndex |-> (x + ColumnOffset) % 2]

PixelToByteOffsetNibble(s, x, y) ==
    IF x < 0 \/ x >= s.width \/ y < 0 \/ y >= s.height
    THEN [err |-> TRUE, byteOffset |-> 0, nibbleIndex |-> 0]
    ELSE [err |-> FALSE,
          byteOffset |-> (y * InternalColumns + x + ColumnOffset) \div 2,
          nibbleIndex |-> (x + ColumnOffset) % 2]

\* SetPixelNibble with the nibble test inverted: stores into the other nibble
SetPixelNibbleSwapped(s, x, y, color) ==
    With(PixelToByteOffsetNibble(s, x, y), LAMBDA loc :
      IF loc.err \/ loc.byteOffset >= allocateVRAM(s.height)
      THEN [err |-> TRUE, vram |-> s.vram]
      ELSE With(VramGet(s.vram, loc.byteOffset), LAMBDA old :
           With(BitAnd(color, 15), LAMBDA c :
             [err |-> FALSE,
              vram |-> VramSet(s.vram, loc.byteOffset,
                         IF loc.nibbleIndex # 0
                         THEN BitOr(BitAnd(old, 240), c)
                         ELSE BitOr(BitAnd(old, 15), ShiftLeft(c, 4)))])))

\* SetPixelNibble without the read-modify-write: stores the whole byte
SetPixelNibbleClobber(s, x, y, color) ==
    With(PixelToByteOffsetNibble(s, x, y), LAMBDA loc :
      IF loc.err \/ loc.byteOffset >= allocateVRAM(s.height)
      THEN [err |-> TRUE, vram |-> s.vram]
      ELSE With(BitAnd(color, 15), LAMBDA c :
             [err |-> FALSE,
              vram |-> VramSet(s.vram, loc.byteOffset,
                         IF loc.nibbleIndex = 0 THEN c ELSE ShiftLeft(c, 4))]))

\* result: err, and the VRAM after the call
SetPixelNibble(s, x, y, color) ==
    With(PixelToByteOffsetNibble(s, x, y), LAMBDA loc :
      IF loc.err
      THEN [err |-> TRUE, vram |-> s.vram]
      ELSE IF loc.byteOffset >= allocateVRAM(s.height)
      THEN [err |-> TRUE, vram |-> s.vram]
      ELSE With(VramGet(s.vram, loc.byteOffset), LAMBDA old :
           With(BitAnd(color, 15), LAMBDA c :
             IF loc.nibbleIndex = 0
             THEN [err |-> FALSE,
                   vram |-> VramSet(s.vram, loc.byteOffset,
                                    BitOr(BitAnd(old, 240), c))]
             ELSE [err |-> FALSE,
                   vram |-> VramSet(s.vram, loc.byteOffset,
                                    BitOr(BitAnd(old, 15), ShiftLeft(c, 4)))])))

\* FillRegionNibble's two loops from pixel (x, y) on; s.vram is the VRAM as
\* filled so far.  result: err, and the VRAM after the call
RECURSIVE FillRegionNibbleLoop(_, _, _, _, _, _, _)
FillRegionNibbleLoop(s, x, y, x0, x1, y1, color) ==
    IF y > y1 THEN [err |-> FALSE, vram |-> s.vram]
    ELSE IF x > x1 THEN FillRegionNibbleLoop(s, x0, y + 1, x0, x1, y1, color)
    ELSE With(SetPixelNibble(s, x, y, color), LAMBDA r :
           IF r.err
           THEN [err |-> TRUE, vram |-> s.vram]
           ELSE FillRegionNibbleLoop([s EXCEPT !.vram = r.vram],
                                     x + 1, y, x0, x1, y1, color))

FillRegionNibble(s, x0, y0, x1, y1, color) ==
    FillRegionNibbleLoop(s, x0, y0, x0, x1, y1, BitAnd(color, 15))

\* result: err, and the value read
GetPixelNibble(s, x, y) ==
    With(PixelToByteOffsetNibble(s, x, y), LAMBDA loc :
      IF loc.err
      THEN [err |-> TRUE, val |-> 0]
      ELSE IF loc.byteOffset >= allocateVRAM(s.height)
      THEN [err |-> TRUE, val |-> 0]
      ELSE With(VramGet(s.vram, loc.byteOffset), LAMBDA old :
             IF loc.nibbleIndex = 0
             THEN [err |-> FALSE, val |-> BitAnd(old, 15)]
             ELSE [err |-> FALSE, val |-> BitAnd(ShiftRight(old, 4), 15)]))

---------------------------------------------------------------------------
(* SSD1322 *)

NewSSD1322(width, height) ==
    [width |-> width, height |-> height, vram |-> EmptyVRAM,
     dirtyX0 |-> -1, dirtyY0 |-> -1, dirtyX1 |-> -1, dirtyY1 |-> -1,
     hasDirty |-> FALSE,
     commandLocked |-> TRUE,
     displayOn |-> FALSE,
     dataMode |-> FALSE,
     contrastLevel |-> 127,
     masterCurrentLevel |-> 15,
     invertDisplay |-> FALSE,
     columnStart |-> 0,
     columnEnd |-> width - 1,
     rowStart |-> 0,
     rowEnd |-> height - 1,
     currentColumn |-> 0,
     currentRow |-> 0,
     scrollEnabled |-> FALSE,
     startLine |-> 0,
     displayOffset |-> 0,
     multiplexRatio |-> 63,
     clockDivider |-> 0,
     phaseLength |-> 116,
     prechargeVoltage |-> 60,
     vcomhLevel |-> 7,
     remapSettings |-> 20,
     grayscaleTableMode |-> 0]

\* ProcessCommand's first switch: the commands handled before the lock test.
\* result: err, and the device after the call.  data[1] is the code's data[0].
ProcessCommandFirst(s, cmd, data) ==
    LET n == Len(data)
        ok(t) == [err |-> FALSE, s |-> t]
    IN  CASE cmd = CmdCommandLock ->
               IF n > 0
               THEN IF data[1] = UnlockArg THEN ok([s EXCEPT !.commandLocked = FALSE])
                    ELSE IF data[1] = LockArg THEN ok([s EXCEPT !.commandLocked = TRUE])
                    ELSE ok(s)
               ELSE ok(s)
          [] cmd = CmdNormalDisplay -> ok([s EXCEPT !.displayOn = TRUE])
          [] cmd = CmdSleepMode -> ok([s EXCEPT !.displayOn = FALSE])
          [] cmd = CmdWriteRAM -> ok([s EXCEPT !.dataMode = TRUE])
          [] cmd = CmdReadRAM -> ok([s EXCEPT !.dataMode = TRUE])

\* ProcessCommand's second switch
ProcessCommandSecond(s, cmd, data) ==
    LET n == Len(data)
        ok(t) == [err |-> FALSE, s |-> t]
    IN  CASE cmd = CmdSetColumnAddress ->
               IF n >= 2
               THEN ok([s EXCEPT !.columnStart = data[1], !.columnEnd = data[2],
                                 !.currentColumn = data[1]])
               ELSE ok(s)
          [] cmd = CmdSetRowAddress ->
               IF n >= 2
               THEN ok([s EXCEPT !.rowStart = data[1], !.rowEnd = data[2],
                                 !.currentRow = data[1]])
               ELSE ok(s)
          [] cmd = CmdSetContrast ->
               IF n > 0 THEN ok([s EXCEPT !.contrastLevel = data[1]]) ELSE ok(s)
          [] cmd = CmdMasterContrast ->
               IF n > 0 THEN ok([s EXCEPT !.masterCurrentLevel = BitAnd(data[1], 15)])
               ELSE ok(s)
          [] cmd = CmdInvertDisplay ->
               IF n > 0 THEN ok([s EXCEPT !.invertDisplay = (BitAnd(data[1], 1) # 0)])
               ELSE ok(s)
          [] cmd = CmdSetMultiplexRatio ->
               IF n > 0 THEN ok([s EXCEPT !.multiplexRatio = data[1]]) ELSE ok(s)
          [] cmd = CmdSetStartLine ->
               IF n > 0 THEN ok([s EXCEPT !.startLine = BitAnd(data[1], 127)]) ELSE ok(s)
          [] cmd = CmdDisplayOffset ->
               IF n > 0 THEN ok([s EXCEPT !.displayOffset = data[1]]) ELSE ok(s)
          [] cmd = CmdSetRemap ->
               IF n > 0 THEN ok([s EXCEPT !.remapSettings = data[1]]) ELSE ok(s)
          [] cmd = CmdSetClockDivider ->
               IF n > 0 THEN ok([s EXCEPT !.clockDivider = data[1]]) ELSE ok(s)
          [] cmd = CmdSetPhaseLength ->
               IF n > 0 THEN ok([s EXCEPT !.phaseLength = data[1]]) ELSE ok(s)
          [] cmd = CmdEnhanceDisplay -> ok(s)
          [] cmd = CmdSetPrecharge ->
               IF n > 0 THEN ok([s EXCEPT !.prechargeVoltage = data[1]]) ELSE ok(s)
          [] cmd = CmdSetVCOMH ->
               IF n > 0 THEN ok([s EXCEPT !.vcomhLevel = data[1]]) ELSE ok(s)
          [] cmd = CmdGrayscaleTable ->
               IF n > 0 THEN ok([s EXCEPT !.grayscaleTableMode = data[1]]) ELSE ok(s)
          [] cmd = CmdDeactivateScroll -> ok([s EXCEPT !.scrollEnabled = FALSE])
          [] cmd = CmdActivateScroll -> ok([s EXCEPT !.scrollEnabled = TRUE])
          [] cmd = CmdHorizontalScroll ->
               IF n >= 5 THEN ok([s EXCEPT !.scrollEnabled = TRUE]) ELSE ok(s)
          [] cmd = CmdDisplayMode -> ok(s)
          [] OTHER -> ok(s)

FirstSwitch ==
    {CmdCommandLock, CmdNormalDisplay, CmdSleepMode, CmdWriteRAM, CmdReadRAM}

\* the commands the second switch has a case for
SecondSwitch ==
    {CmdSetColumnAddress, CmdSetRowAddress, CmdSetContrast, CmdMasterContrast,
     CmdInvertDisplay, CmdSetMultiplexRatio, CmdSetStartLine, CmdDisplayOffset,
     CmdSetRemap, CmdSetClockDivider, CmdSetPhaseLength, CmdEnhanceDisplay,
     CmdSetPrecharge, CmdSetVCOMH, CmdGrayscaleTable, CmdDeactivateScroll,
     CmdActivateScroll, CmdHorizontalScroll, CmdDisplayMode}

\* the commands that set the address window: guard len(data) >= 2
WindowOpcodes == {CmdSetColumnAddress, CmdSetRowAddress}

\* the commands whose case reads data[0] under the guard len(data) > 0
OneArgOpcodes ==
    {CmdCommandLock, CmdSetContrast, CmdMasterContrast, CmdInvertDisplay,
     CmdSetMultiplexRatio, CmdSetStartLine, CmdDisplayOffset, CmdSetRemap,
     CmdSetClockDivider, CmdSetPhaseLength, CmdSetPrecharge, CmdSetVCOMH,
     CmdGrayscaleTable}

\* the least len(data) with which a command's case does anything
RequiredArgs(cmd) ==
    IF cmd \in WindowOpcodes THEN 2
    ELSE IF cmd = CmdHorizontalScroll THEN 5
    ELSE IF cmd \in OneArgOpcodes THEN 1
    ELSE 0

\* ProcessCommand that ignores the second switch's commands while locked
ProcessCommandGated(s, cmd, data) ==
    IF cmd \in FirstSwitch
    THEN ProcessCommandFirst(s, cmd, data)
    ELSE IF s.commandLocked
    THEN [err |-> FALSE, s |-> s]
    ELSE ProcessCommandSecond(s, cmd, data)

\* ProcessCommand whose window commands leave the cursor where it was
ProcessCommandWindowKeepsCursor(s, cmd, data) ==
    IF cmd = CmdSetColumnAddress /\ Len(data) >= 2
    THEN [err |-> FALSE,
          s |-> [s EXCEPT !.columnStart = data[1], !.columnEnd = data[2]]]
    ELSE IF cmd = CmdSetRowAddress /\ Len(data) >= 2
    THEN [err |-> FALSE,
          s |-> [s EXCEPT !.rowStart = data[1], !.rowEnd = data[2]]]
    ELSE IF cmd \in FirstSwitch
    THEN ProcessCommandFirst(s, cmd, data)
    ELSE ProcessCommandSecond(s, cmd, data)

\* ProcessCommand whose window commands take the start from a single byte
ProcessCommandPartialWindow(s, cmd, data) ==
    IF cmd = CmdSetColumnAddress /\ Len(data) = 1
    THEN [err |-> FALSE,
          s |-> [s EXCEPT !.columnStart = data[1], !.currentColumn = data[1]]]
    ELSE IF cmd = CmdSetRowAddress /\ Len(data) = 1
    THEN [err |-> FALSE,
          s |-> [s EXCEPT !.rowStart = data[1], !.currentRow = data[1]]]
    ELSE IF cmd \in FirstSwitch
    THEN ProcessCommandFirst(s, cmd, data)
    ELSE ProcessCommandSecond(s, cmd, data)

\* ProcessCommand whose default case returns an error
ProcessCommandRejectsUnknown(s, cmd, data) ==
    IF cmd \in FirstSwitch
    THEN ProcessCommandFirst(s, cmd, data)
    ELSE IF cmd \in SecondSwitch
    THEN ProcessCommandSecond(s, cmd, data)
    ELSE [err |-> TRUE, s |-> s]

\* ProcessCommand whose lock command locks on every argument but 0xB1
ProcessCommandLockAnyArg(s, cmd, data) ==
    IF cmd = CmdCommandLock /\ Len(data) > 0
    THEN [err |-> FALSE, s |-> [s EXCEPT !.commandLocked = (data[1] # UnlockArg)]]
    ELSE IF cmd \in FirstSwitch
    THEN ProcessCommandFirst(s, cmd, data)
    ELSE ProcessCommandSecond(s, cmd, data)

\* ProcessCommand whose contrast command marks the whole viewport dirty
ProcessCommandContrastMarksDirty(s, cmd, data) ==
    IF cmd = CmdSetContrast /\ Len(data) > 0
    THEN [err |-> FALSE,
          s |-> MarkDirty([s EXCEPT !.contrastLevel = data[1]],
                          0, 0, Width(s) - 1, Height(s) - 1)]
    ELSE IF cmd \in FirstSwitch
    THEN ProcessCommandFirst(s, cmd, data)
    ELSE ProcessCommandSecond(s, cmd, data)

\* ProcessCommand whose display-on command also enters the data phase
ProcessCommandDisplayOnEntersData(s, cmd, data) ==
    IF cmd = CmdNormalDisplay
    THEN [err |-> FALSE, s |-> [s EXCEPT !.displayOn = TRUE, !.dataMode = TRUE]]
    ELSE IF cmd \in FirstSwitch
    THEN ProcessCommandFirst(s, cmd, data)
    ELSE ProcessCommandSecond(s, cmd, data)

\* ProcessCommand that stores the master-current and start-line arguments whole
ProcessCommandUnmasked(s, cmd, data) ==
    IF cmd = CmdMasterContrast /\ Len(data) > 0
    THEN [err |-> FALSE, s |-> [s EXCEPT !.masterCurrentLevel = data[1]]]
    ELSE IF cmd = CmdSetStartLine /\ Len(data) > 0
    THEN [err |-> FALSE, s |-> [s EXCEPT !.startLine = data[1]]]
    ELSE IF cmd \in FirstSwitch
    THEN ProcessCommandFirst(s, cmd, data)
    ELSE ProcessCommandSecond(s, cmd, data)

\* result: err, and the device after the call.  The test of commandLocked
\* between the two switches has an empty body.
ProcessCommand(s, cmd, data) ==
    IF cmd \in FirstSwitch
    THEN ProcessCommandFirst(s, cmd, data)
    ELSE ProcessCommandSecond(s, cmd, data)

\* WriteData's store of one decoded pixel: SetPixelNibble, and MarkDirty when
\* it succeeded.  acc.s is the device, acc.wrote the pixels stored so far by
\* this WriteData call.
WriteDataPixel(acc, x, y, pixel) ==
    With(SetPixelNibble(acc.s, x, y, pixel), LAMBDA r :
      IF r.err
      THEN acc
      ELSE [s |-> MarkDirty([acc.s EXCEPT !.vram = r.vram], x, y, x, y),
            wrote |-> acc.wrote \cup {<<x, y>>}])

\* WriteDataAdvance that lets the row run past rowEnd
WriteDataAdvanceNoRowWrap(s) ==
    IF s.currentColumn + 1 > s.columnEnd
    THEN [s EXCEPT !.currentColumn = s.columnStart,
                   !.currentRow = s.currentRow + 1]
    ELSE [s EXCEPT !.currentColumn = s.currentColumn + 1]

\* WriteData's cursor advance after one payload byte
WriteDataAdvance(s) ==
    IF s.currentColumn + 1 > s.columnEnd
    THEN [s EXCEPT !.currentColumn = s.columnStart,
                   !.currentRow = IF s.currentRow + 1 > s.rowEnd
                                  THEN s.rowStart
                                  ELSE s.currentRow + 1]
    ELSE [s EXCEPT !.currentColumn = s.currentColumn + 1]

\* WriteDataByte that stores the upper nibble first
WriteDataByteSwapped(acc, byteVal) ==
    LET s   == acc.s
        col == s.currentColumn
        row == s.currentRow
        displayCol == col - s.columnStart
    IN  IF col >= s.columnStart /\ col <= s.columnEnd
           /\ row >= s.rowStart /\ row <= s.rowEnd /\ displayCol < Width(s)
        THEN
          With(WriteDataPixel(acc, displayCol, row,
                              BitAnd(ShiftRight(byteVal, 4), 15)),
               LAMBDA a1 :
          With(IF displayCol + 1 < Width(s)
               THEN WriteDataPixel(a1, displayCol + 1, row, BitAnd(byteVal, 15))
               ELSE a1,
               LAMBDA a2 :
            [s |-> WriteDataAdvance(a2.s), wrote |-> a2.wrote]))
        ELSE acc

\* One iteration of WriteData's loop over the payload
WriteDataByte(acc, byteVal) ==
    LET s   == acc.s
        col == s.currentColumn
        row == s.currentRow
        displayCol == col - s.columnStart
    IN  IF col >= s.columnStart /\ col <= s.columnEnd
           /\ row >= s.rowStart /\ row <= s.rowEnd
        THEN
          IF displayCol < Width(s)
          THEN
            With(WriteDataPixel(acc, displayCol, row, BitAnd(byteVal, 15)),
                 LAMBDA a1 :
            With(IF displayCol + 1 < Width(s)
                 THEN WriteDataPixel(a1, displayCol + 1, row,
                                     BitAnd(ShiftRight(byteVal, 4), 15))
                 ELSE a1,
                 LAMBDA a2 :
              [s |-> WriteDataAdvance(a2.s), wrote |-> a2.wrote]))
          ELSE acc
        ELSE acc

RECURSIVE WriteDataLoop(_, _, _)
WriteDataLoop(acc, data, i) ==
    IF i > Len(data) THEN acc
    ELSE With(WriteDataByte(acc, data[i]), LAMBDA a :
           WriteDataLoop(a, data, i + 1))

\* WriteData that tests dataMode after its loop
WriteDataLateGuard(s, data) ==
    With(WriteDataLoop([s |-> s, wrote |-> {}], data, 1), LAMBDA acc :
      [err |-> ~s.dataMode, s |-> acc.s, wrote |-> acc.wrote])

\* WriteData without the dataMode guard
WriteDataUnguarded(s, data) ==
    With(WriteDataLoop([s |-> s, wrote |-> {}], data, 1), LAMBDA acc :
      [err |-> FALSE, s |-> acc.s, wrote |-> acc.wrote])

\* result: err, the device after the call, and the pixels it stored
WriteData(s, data) ==
    IF ~s.dataMode
    THEN [err |-> TRUE, s |-> s, wrote |-> {}]
    ELSE With(WriteDataLoop([s |-> s, wrote |-> {}], data, 1), LAMBDA acc :
           [err |-> FALSE, s |-> acc.s, wrote |-> acc.wrote])

\* result: err, and the device after the call
SetPixel(s, x, y, color) ==
    IF x < 0 \/ x >= Width(s) \/ y < 0 \/ y >= Height(s)
    THEN [err |-> TRUE, s |-> s]
    ELSE With(SetPixelNibble(s, x, y, BitAnd(color, 15)), LAMBDA r :
           IF r.err
           THEN [err |-> TRUE, s |-> s]
           ELSE [err |-> FALSE,
                 s |-> MarkDirty([s EXCEPT !.vram = r.vram], x, y, x, y)])

\* result: err, and the value read
GetPixel(s, x, y) == GetPixelNibble(s, x, y)

\* Reset that leaves the phase and the cursor as they were
ResetKeepsPhase(s) ==
    With([s EXCEPT !.vram = EmptyVRAM,
                   !.commandLocked = TRUE, !.displayOn = FALSE,
                   !.contrastLevel = 127,
                   !.masterCurrentLevel = 15, !.invertDisplay = FALSE,
                   !.columnStart = 0, !.columnEnd = Width(s) - 1,
                   !.rowStart = 0, !.rowEnd = Height(s) - 1,
                   !.scrollEnabled = FALSE, !.startLine = 0,
                   !.displayOffset = 0],
         LAMBDA u :
           [err |-> FALSE, s |-> MarkDirty(u, 0, 0, Width(s) - 1, Height(s) - 1)])

\* Reset without the loop that zeroes VRAM
ResetKeepsVRAM(s) ==
    With([s EXCEPT !.commandLocked = TRUE, !.displayOn = FALSE,
                   !.dataMode = FALSE, !.contrastLevel = 127,
                   !.masterCurrentLevel = 15, !.invertDisplay = FALSE,
                   !.columnStart = 0, !.columnEnd = Width(s) - 1,
                   !.rowStart = 0, !.rowEnd = Height(s) - 1,
                   !.currentColumn = 0, !.currentRow = 0,
                   !.scrollEnabled = FALSE, !.startLine = 0,
                   !.displayOffset = 0],
         LAMBDA u :
           [err |-> FALSE, s |-> MarkDirty(u, 0, 0, Width(s) - 1, Height(s) - 1)])

\* result: err, and the device after the call
Reset(s) ==
    LET t == [s EXCEPT !.vram = EmptyVRAM,
                       !.commandLocked = TRUE,
                       !.displayOn = FALSE,
                       !.dataMode = FALSE,
                       !.contrastLevel = 127,
                       !.masterCurrentLevel = 15,
                       !.invertDisplay = FALSE,
                       !.columnStart = 0,
                       !.columnEnd = Width(s) - 1,
                       !.rowStart = 0,
                       !.rowEnd = Height(s) - 1,
                       !.currentColumn = 0,
                       !.currentRow = 0,
                       !.scrollEnabled = FALSE,
                       !.startLine = 0,
                       !.displayOffset = 0]
    IN  With(t, LAMBDA u :
          [err |-> FALSE, s |-> MarkDirty(u, 0, 0, Width(s) - 1, Height(s) - 1)])

---------------------------------------------------------------------------
(* protocol: the command catalogue, the command builders and SPIBridge *)

\* SSD1322Commands[code].DataBytes; -1 for a code the catalogue does not hold
DataBytes(code) ==
    CASE code \in {21, 117} -> 2
      [] code \in {92, 93, 164, 165, 167, 174, 175, 46, 47} -> 0
      [] code \in {193, 199, 160, 161, 162, 166, 202, 179, 177, 187, 190,
                   180, 209, 185, 253} -> 1
      [] code \in {38, 39} -> 5
      [] OTHER -> -1

SSD1322InitSequence ==
    <<253, 177, 174, 179, 0, 202, 63, 162, 0, 161, 0, 160, 20, 177, 116,
      180, 0, 193, 127, 199, 15, 187, 60, 190, 7, 166, 21, 28, 91,
      117, 0, 63, 175>>

DrawPixelCommand(x, y, color) ==
    <<21, x, x, 117, y, y, 92, BitOr(ShiftLeft(color, 4), color)>>

ContrastCommand(level) == <<193, level>>

InversionCommand(inverted) == IF inverted THEN <<167>> ELSE <<166>>

PowerCommand(on) == IF on THEN <<175>> ELSE <<174>>

\* the 256-byte scratch buffer of the bridge is never read or written
NewSPIBridge ==
    [dcPin |-> FALSE, csPin |-> FALSE, commandMode |-> TRUE,
     dataBuffer |-> << >>, commandCode |-> 0]

SetDC(b, state) == [b EXCEPT !.dcPin = state]

SetCS(b, state) == [b EXCEPT !.csPin = state]

\* writeCommand's loop from byte i on.  acc: err, the bridge and the device.
RECURSIVE writeCommandLoop(_, _, _)
writeCommandLoop(acc, data, i) ==
    IF i > Len(data) THEN acc
    ELSE With(ProcessCommand(acc.s, data[i], acc.sb.dataBuffer), LAMBDA r :
           IF r.err
           THEN [err |-> TRUE, sb |-> acc.sb, s |-> r.s]
           ELSE writeCommandLoop(
                  [err |-> FALSE,
                   sb |-> [acc.sb EXCEPT !.dataBuffer = << >>,
                                         !.commandCode = data[i]],
                   s |-> r.s],
                  data, i + 1))

\* result: err, the bridge and the device after the call
writeCommand(b, s, data) ==
    writeCommandLoop([err |-> FALSE, sb |-> b, s |-> s], data, 1)

\* writeData acknowledges the bytes and does nothing with them
writeData(b, s, data) == [err |-> FALSE, sb |-> b, s |-> s]

Write(b, s, data) ==
    IF b.csPin THEN [err |-> FALSE, sb |-> b, s |-> s]
    ELSE IF Len(data) = 0 THEN [err |-> FALSE, sb |-> b, s |-> s]
    ELSE IF b.dcPin THEN writeData(b, s, data)
    ELSE writeCommand(b, s, data)

\* SPIBridge.Reset
BridgeReset(b, s) ==
    With(Reset(s), LAMBDA r :
      [err |-> r.err, sb |-> [b EXCEPT !.dataBuffer = << >>], s |-> r.s])

\* SendInitSequence's loop over the sequence from byte i on: every byte, at an
\* even or an odd index, is written alone with DC low
RECURSIVE SendInitLoop(_, _, _)
SendInitLoop(acc, sequence, i) ==
    IF i > Len(sequence) THEN acc
    ELSE With(Write(SetDC(acc.sb, FALSE), acc.s, <<sequence[i]>>), LAMBDA r :
           IF r.err THEN r ELSE SendInitLoop(r, sequence, i + 1))

SendInitSequence(b, s, sequence) ==
    With(Write(SetDC(b, FALSE), s, <<253>>), LAMBDA r1 :
      IF r1.err THEN r1
      ELSE With(Write(SetDC(r1.sb, FALSE), r1.s, <<177>>), LAMBDA r2 :
             IF r2.err THEN r2
             ELSE SendInitLoop(r2, sequence, 1)))

---------------------------------------------------------------------------
(* animation: Animator *)

\* The animation functions registered: function k returns true from its k-th
\* call on, function 0 never does.  FnReturns(k, n) is what call n returns.
AnimFns == {0, 1, 3}

FnReturns(k, n) == k > 0 /\ n >= k

\* ticker is TRUE while a.ticker is not nil
NewAnimator(fps) ==
    [fps |-> IF fps <= 0 THEN 60 ELSE fps,
     running |-> FALSE, frameCount |-> 0, animations |-> << >>,
     ticker |-> FALSE, onFrame |-> FALSE]

AddAnimation(a, fn) == [a EXCEPT !.animations = Append(@, fn)]

SetOnFrame(a) == [a EXCEPT !.onFrame = TRUE]

AnimStart(a) ==
    IF a.running THEN a
    ELSE [a EXCEPT !.running = TRUE, !.frameCount = 0, !.ticker = TRUE]

AnimStop(a) ==
    IF ~a.running THEN a
    ELSE [a EXCEPT !.running = FALSE, !.ticker = FALSE]

AnimClear(a) == [a EXCEPT !.animations = << >>]

GetAnimationCount(a) == Len(a.animations)

\* update's loop over a.animations from index i on.  acc.active is
\* activeAnimations, acc.calls the calls made of each function.
RECURSIVE updateLoop(_, _, _)
updateLoop(acc, animations, i) ==
    IF i > Len(animations) THEN acc
    ELSE With(acc.calls[animations[i]] + 1, LAMBDA n :
           updateLoop(
             [active |-> IF FnReturns(animations[i], n)
                         THEN acc.active
                         ELSE Append(acc.active, animations[i]),
              calls |-> [acc.calls EXCEPT ![animations[i]] = n]],
             animations, i + 1))

\* update without the test of a.running
updateIgnoresRunning(a, h) ==
    With(updateLoop([active |-> << >>, calls |-> h.calls], a.animations, 1),
         LAMBDA acc :
      [a |-> [a EXCEPT !.animations = acc.active, !.frameCount = @ + 1],
       h |-> [calls |-> acc.calls,
              onFrameCalls |-> IF a.onFrame THEN h.onFrameCalls + 1
                               ELSE h.onFrameCalls]])

\* update that keeps the animations that returned true
updateKeepsCompleted(a, h) ==
    IF ~a.running THEN [a |-> a, h |-> h]
    ELSE With(updateLoop([active |-> << >>, calls |-> h.calls], a.animations, 1),
              LAMBDA acc :
           [a |-> [a EXCEPT !.frameCount = @ + 1],
            h |-> [calls |-> acc.calls,
                   onFrameCalls |-> IF a.onFrame THEN h.onFrameCalls + 1
                                    ELSE h.onFrameCalls]])

\* result: the animator and the history after the call
update(a, h) ==
    IF ~a.running THEN [a |-> a, h |-> h]
    ELSE With(updateLoop([active |-> << >>, calls |-> h.calls], a.animations, 1),
              LAMBDA acc :
           [a |-> [a EXCEPT !.animations = acc.active, !.frameCount = @ + 1],
            h |-> [calls |-> acc.calls,
                   onFrameCalls |-> IF a.onFrame THEN h.onFrameCalls + 1
                                    ELSE h.onFrameCalls]])

---------------------------------------------------------------------------
(* animation: Tween *)

\* Durations and elapsed times are counted in ticks of 50 ms.  The fields
\* from, to and easing only enter GetValue and are left out.  onComplete is
\* TRUE when a callback is set.
NewTween(duration) == [duration |-> duration, elapsed |-> 0, onComplete |-> FALSE]

SetOnComplete(t) == [t EXCEPT !.onComplete = TRUE]

IsComplete(t) == t.elapsed >= t.duration

\* result: the tween, the calls made of onComplete, and the value returned
TweenUpdate(t, calls, dt) ==
    IF IsComplete(t) THEN [t |-> t, calls |-> calls, val |-> TRUE]
    ELSE LET t1 == [t EXCEPT !.elapsed = IF t.elapsed + dt > t.duration
                                         THEN t.duration ELSE t.elapsed + dt]
         IN  IF IsComplete(t1)
             THEN [t |-> t1,
                   calls |-> IF t1.onComplete THEN calls + 1 ELSE calls,
                   val |-> TRUE]
             ELSE [t |-> t1, calls |-> calls, val |-> FALSE]

---------------------------------------------------------------------------
(* graphics: FrameBuffer *)

GetFrameBuffer(s) == s.vram

\* buffer is the copy of the device's VRAM
NewFrameBuffer(s) == [buffer |-> GetFrameBuffer(s), dirty |-> FALSE]

\* SetPixel that raises the flag before it asks the device
FBSetPixelAlwaysDirty(f, s, x, y, color) ==
    With(SetPixel(s, x, y, color), LAMBDA r :
      [err |-> r.err, fb |-> [f EXCEPT !.dirty = TRUE], s |-> r.s])

\* result: err, the framebuffer and the device after the call
FBSetPixel(f, s, x, y, color) ==
    With(SetPixel(s, x, y, color), LAMBDA r :
      IF r.err
      THEN [err |-> TRUE, fb |-> f, s |-> r.s]
      ELSE [err |-> FALSE, fb |-> [f EXCEPT !.dirty = TRUE], s |-> r.s])

Flush(f, s) ==
    IF ~f.dirty THEN f
    ELSE [f EXCEPT !.buffer = GetFrameBuffer(s), !.dirty = FALSE]

IsDirty(f) == f.dirty

---------------------------------------------------------------------------
(* emulator: VRAMRenderer *)

\* RenderToImage reads the device through GetDirtyRegion and GetPixel and
\* draws into a new image; it calls nothing else of the device.  result: the
\* device after the call and the rectangle of pixels drawn (the colours of
\* the image are left out).
RenderToImage(s) ==
    With(GetDirtyRegion(s), LAMBDA d :
      [s |-> s,
       drawn |-> IF d[1] = -1
                 THEN <<0, 0, Width(s) - 1, Height(s) - 1>>
                 ELSE d])

---------------------------------------------------------------------------
(* device: MemoryHelper, VerticalByte format *)

\* mh is the helper (width, height), vram the bytes that are not 0, len the
\* length of the VRAM a VerticalByte device allocates
NewVerticalMemory(width, height) ==
    [mh |-> [width |-> width, height |-> height],
     vram |-> EmptyVRAM,
     len |-> width * ((height + 7) \div 8)]

\* result: err, byteOffset and bitOffset
PixelToByteOffsetVertical(mh, x, y) ==
    IF x < 0 \/ x >= mh.width \/ y < 0 \/ y >= mh.height
    THEN [err |-> TRUE, byteOffset |-> 0, bitOffset |-> 0]
    ELSE [err |-> FALSE,
          byteOffset |-> x * ((mh.height + 7) \div 8) + y \div 8,
          bitOffset |-> y % 8]

\* SetPixelVertical that stores bit 0 of the color
SetPixelVerticalBit0(m, x, y, color) ==
    With(PixelToByteOffsetVertical(m.mh, x, y), LAMBDA o :
      IF o.err \/ o.byteOffset >= m.len
      THEN [err |-> TRUE, vram |-> m.vram]
      ELSE With(VramGet(m.vram, o.byteOffset), LAMBDA old :
             [err |-> FALSE,
              vram |-> VramSet(m.vram, o.byteOffset,
                         IF BitAnd(color, 1) # 0
                         THEN BitOr(old, ShiftLeft(1, o.bitOffset))
                         ELSE BitAnd(old, 255 - ShiftLeft(1, o.bitOffset)))]))

\* result: err, and the VRAM after the call
SetPixelVertical(m, x, y, color) ==
    With(PixelToByteOffsetVertical(m.mh, x, y), LAMBDA o :
      IF o.err \/ o.byteOffset >= m.len
      THEN [err |-> TRUE, vram |-> m.vram]
      ELSE With(VramGet(m.vram, o.byteOffset), LAMBDA old :
             [err |-> FALSE,
              vram |-> VramSet(m.vram, o.byteOffset,
                         IF color > 0
                         THEN BitOr(old, ShiftLeft(1, o.bitOffset))
                         ELSE BitAnd(old, 255 - ShiftLeft(1, o.bitOffset)))]))

\* result: err, and the value read
GetPixelVertical(m, x, y) ==
    With(PixelToByteOffsetVertical(m.mh, x, y), LAMBDA o :
      IF o.err \/ o.byteOffset >= m.len
      THEN [err |-> TRUE, val |-> 0]
      ELSE [err |-> FALSE,
            val |-> IF BitAnd(VramGet(m.vram, o.byteOffset),
                              ShiftLeft(1, o.bitOffset)) # 0
                    THEN 1 ELSE 0])

---------------------------------------------------------------------------
(* animation: ParallelTween *)

NewParallelTween(tweens) == [tweens |-> tweens, onComplete |-> FALSE]

ParSetOnComplete(pt) == [pt EXCEPT !.onComplete = TRUE]

ParIsComplete(pt) == \A i \in DOMAIN pt.tweens : IsComplete(pt.tweens[i])

\* Update's loop over pt.tweens from index i on; acc.tweens are the tweens
\* as updated so far, acc.allComplete the flag
RECURSIVE ParUpdateLoop(_, _, _)
ParUpdateLoop(acc, dt, i) ==
    IF i > Len(acc.tweens) THEN acc
    ELSE IF ~IsComplete(acc.tweens[i])
    THEN ParUpdateLoop(
           [tweens |-> [acc.tweens EXCEPT
                          ![i] = TweenUpdate(acc.tweens[i], 0, dt).t],
            allComplete |-> FALSE],
           dt, i + 1)
    ELSE ParUpdateLoop(acc, dt, i + 1)

\* result: the parallel tween, the calls made of its onComplete, and the
\* value returned
ParUpdate(pt, calls, dt) ==
    With(ParUpdateLoop([tweens |-> pt.tweens, allComplete |-> TRUE], dt, 1),
         LAMBDA acc :
      [pt |-> [pt EXCEPT !.tweens = acc.tweens],
       calls |-> IF acc.allComplete /\ pt.onComplete THEN calls + 1 ELSE calls,
       val |-> acc.allComplete])

IsDisplayOn(s) == s.displayOn
GetContrastLevel(s) == s.contrastLevel
IsInverted(s) == s.invertDisplay

InitBridge == sb = NewSPIBridge

InitAnimator ==
    /\ anim = NewAnimator(60)
    /\ animHist = [calls |-> [k \in AnimFns |-> 0], onFrameCalls |-> 0]

\* NewTween(from, to, duration, easing).SetOnComplete(fn)
InitTweenOf(duration) ==
    /\ tween = SetOnComplete(NewTween(duration))
    /\ tweenHist = [onCompleteCalls |-> 0]

InitFrameBuffer == fb = NewFrameBuffer(ssd)

\* a helper for 3 columns of 10 rows: two bytes a column
InitMono ==
    /\ mono = NewVerticalMemory(3, 10)
    /\ monoHist = [lastSet |-> << >>]

\* no goroutine, no ticker, no call in progress.
\*   loops:   the loop goroutines started so far; pc is "top" (before the
\*            lock), "selecting" (holds its ticker, about to select),
\*            "waiting" (blocked in the select), "ticked" (received a tick,
\*            about to call update) or "done"
\*   tickers: the tickers created so far; tick is the tick buffered in C
\*   spawns:  Start calls that have unlocked and not yet run `go a.loop()`
\*   stops:   Stop calls that have unlocked and not yet sent on stopChan;
\*            TRUE for those a Start call has begun since
\*   afterStop: a Stop call has returned and no Start call begun since it
\*            began; afterRunningStop: the same for a Stop that found the
\*            animator running
InitRuntime ==
    rt = [loops |-> << >>, tickers |-> << >>, spawns |-> 0, stops |-> << >>,
          afterStop |-> FALSE, afterRunningStop |-> FALSE, ticks |-> 0]

\* NewParallelTween(t1, t2).SetOnComplete(fn), the tweens without callbacks
InitParallelOf(durations) ==
    /\ par = ParSetOnComplete(NewParallelTween(
               [i \in DOMAIN durations |-> NewTween(durations[i])]))
    /\ parHist = [onCompleteCalls |-> 0]

InitOthers ==
    /\ InitParallelOf(<<2, 2>>)
    /\ InitBridge
    /\ InitAnimator
    /\ InitTweenOf(2)
    /\ InitFrameBuffer
    /\ InitMono
    /\ InitRuntime

---------------------------------------------------------------------------
(* The calls a client makes, and the inputs they are tried with *)

\* calls made in one behaviour of Spec, and of SpecData
MaxOps == 3
MaxDataOps == 5
\* longest payload handed to one WriteData call
MaxPayload == 3

Opcodes ==
    {CmdSetColumnAddress, CmdSetRowAddress, CmdWriteRAM, CmdReadRAM,
     CmdSetContrast, CmdMasterContrast, CmdSetRemap, CmdSetStartLine,
     CmdDisplayOffset, CmdDisplayMode, CmdInvertDisplay, CmdSetMultiplexRatio,
     CmdSleepMode, CmdNormalDisplay, CmdHorizontalScroll, CmdContinuousScroll,
     CmdDeactivateScroll, CmdActivateScroll, CmdSetClockDivider,
     CmdSetPhaseLength, CmdEnhanceDisplay, CmdSetPrecharge, CmdSetVCOMH,
     CmdGrayscaleTable, CmdCommandLock, 0}

\* opcodes whose handler reads no argument
NoArgOpcodes ==
    {CmdWriteRAM, CmdReadRAM, CmdSleepMode, CmdNormalDisplay, CmdDisplayMode,
     CmdEnhanceDisplay, CmdDeactivateScroll, CmdActivateScroll,
     CmdContinuousScroll}

\* the commands that keep only some bits of their argument
MaskedOpcodes == {CmdMasterContrast, CmdInvertDisplay, CmdSetStartLine}

\* argument lists the commands are sent with
ArgsFor(cmd) ==
    IF cmd = CmdCommandLock THEN {<< >>, <<UnlockArg>>, <<LockArg>>, <<245>>}
    ELSE IF cmd \in WindowOpcodes THEN {<< >>, <<5>>, <<254, 255>>, <<5, 3>>}
    ELSE IF cmd \in {CmdHorizontalScroll, 0} THEN {<< >>, <<1, 2, 3, 4, 5>>}
    ELSE IF cmd \in NoArgOpcodes THEN {<< >>}
    ELSE IF cmd \in MaskedOpcodes THEN {<< >>, <<245>>, <<254>>}
    ELSE {<< >>, <<245>>}

\* payloads of SpecData: the bytes 0xF5 and 0x21 in turn, starting with either
PayloadBytes == {245, 33}

Payloads ==
    {[i \in 1..n |-> IF i % 2 = 1 THEN b ELSE 278 - b] :
       n \in 0..MaxPayload, b \in PayloadBytes}

\* pixel coordinates: in the viewport, and outside it on each side
PixelPoints ==
    {<<0, 0>>, <<1, 0>>, <<255, 63>>,
     <<-1, 0>>, <<300, 0>>, <<256, 0>>, <<0, -1>>, <<0, 64>>}
Colors == {0, 10, 245}

\* payloads of Spec
ShortPayloads == {<< >>, <<245>>, <<245, 33>>}

DirtyRects == {<<10, 20, 30, 40>>, <<-5, -5, 300, 70>>, <<300, 0, 400, 0>>,
               <<0, 0, -3, -3>>}

Init ==
    /\ ssd = NewSSD1322(DevWidth, DevHeight)
    /\ last = [op |-> "NewSSD1322", args |-> << >>, err |-> FALSE, val |-> 0]
    /\ written = [all |-> FALSE, pts |-> {}, marked |-> FALSE]
    /\ left = MaxOps
    /\ InitOthers

CallProcessCommand(cmd, data) ==
    /\ left > 0
    /\ UNCHANGED notDevice
    /\ \E r \in {ProcessCommand(ssd, cmd, data)} :
           /\ ssd' = r.s
           /\ last' = [op |-> "ProcessCommand", args |-> <<cmd, data>>, err |-> r.err, val |-> 0]
    /\ left' = left - 1
    /\ UNCHANGED written

CallWriteData(data) ==
    /\ left > 0
    /\ UNCHANGED notDevice
    /\ \E r \in {WriteData(ssd, data)} :
           /\ ssd' = r.s
           /\ last' = [op |-> "WriteData", args |-> <<data>>, err |-> r.err, val |-> 0]
           /\ written' = [written EXCEPT !.pts = @ \cup r.wrote]
    /\ left' = left - 1

CallSetPixel(x, y, color) ==
    /\ left > 0
    /\ UNCHANGED notDevice
    /\ \E r \in {SetPixel(ssd, x, y, color)} :
           /\ ssd' = r.s
           /\ last' = [op |-> "SetPixel", args |-> <<x, y, color>>,
                        err |-> r.err, val |-> 0]
           /\ written' = IF r.err THEN written
                         ELSE [written EXCEPT !.pts = @ \cup {<<x, y>>}]
    /\ left' = left - 1

CallGetPixel(x, y) ==
    /\ left > 0
    /\ UNCHANGED notDevice
    /\ \E r \in {GetPixel(ssd, x, y)} :
           last' = [op |-> "GetPixel", args |-> <<x, y>>, err |-> r.err, val |-> r.val]
    /\ left' = left - 1
    /\ UNCHANGED <<ssd, written>>

CallReset ==
    /\ left > 0
    /\ UNCHANGED notDevice
    /\ \E r \in {Reset(ssd)} :
           /\ ssd' = r.s
           /\ last' = [op |-> "Reset", args |-> << >>, err |-> r.err, val |-> 0]
    /\ written' = [written EXCEPT !.all = TRUE]
    /\ left' = left - 1

CallMarkDirty(rect) ==
    /\ left > 0
    /\ UNCHANGED notDevice
    /\ ssd' = MarkDirty(ssd, rect[1], rect[2], rect[3], rect[4])
    /\ last' = [op |-> "MarkDirty", args |-> rect, err |-> FALSE, val |-> 0]
    /\ written' = [written EXCEPT !.marked = TRUE]
    /\ left' = left - 1

CallClearDirtyRegion ==
    /\ left > 0
    /\ UNCHANGED notDevice
    /\ ssd' = ClearDirtyRegion(ssd)
    /\ last' = [op |-> "ClearDirtyRegion", args |-> << >>, err |-> FALSE, val |-> 0]
    /\ written' = [all |-> FALSE, pts |-> {}, marked |-> FALSE]
    /\ left' = left - 1

\* Spec: every call, every opcode, at most MaxOps calls
Next ==
    \/ \E cmd \in Opcodes : \E data \in ArgsFor(cmd) : CallProcessCommand(cmd, data)
    \/ \E data \in ShortPayloads : CallWriteData(data)
    \/ \E p \in PixelPoints, color \in Colors : CallSetPixel(p[1], p[2], color)
    \/ \E p \in PixelPoints : CallGetPixel(p[1], p[2])
    \/ CallReset
    \/ \E rect \in DirtyRects : CallMarkDirty(rect)
    \/ CallClearDirtyRegion

Spec == Init /\ [][Next]_vars

\* SpecData: the payload path (address window, Write RAM, payload bytes) at
\* greater depth: at most MaxDataOps calls
InitData ==
    /\ ssd = NewSSD1322(DevWidth, DevHeight)
    /\ last = [op |-> "NewSSD1322", args |-> << >>, err |-> FALSE, val |-> 0]
    /\ written = [all |-> FALSE, pts |-> {}, marked |-> FALSE]
    /\ left = MaxDataOps
    /\ InitOthers

DataArgs == {<<254, 255>>, <<0, 0>>, <<5, 3>>, <<0, 1>>}

NextData ==
    \/ \E cmd \in WindowOpcodes, data \in DataArgs : CallProcessCommand(cmd, data)
    \/ CallProcessCommand(CmdWriteRAM, << >>)
    \/ \E data \in Payloads : CallWriteData(data)
    \/ CallReset
    \/ CallClearDirtyRegion

SpecData == InitData /\ [][NextData]_vars

\* SpecSPI: the device driven through the bridge, at most MaxSpiOps calls
MaxSpiOps == 4

\* byte strings written to the bridge
BridgeWrites ==
    {ContrastCommand(128), InversionCommand(TRUE), InversionCommand(FALSE),
     PowerCommand(TRUE), DrawPixelCommand(1, 0, 15), <<92>>, <<245>>,
     <<253, 177>>, <<21, 28, 91>>, << >>}

InitSPI ==
    /\ ssd = NewSSD1322(DevWidth, DevHeight)
    /\ last = [op |-> "NewSSD1322", args |-> << >>, err |-> FALSE, val |-> 0]
    /\ written = [all |-> FALSE, pts |-> {}, marked |-> FALSE]
    /\ left = MaxSpiOps
    /\ InitOthers

BridgeSetDC(state) ==
    /\ left > 0
    /\ sb' = SetDC(sb, state)
    /\ last' = [op |-> "SetDC", args |-> <<state>>, err |-> FALSE, val |-> 0]
    /\ left' = left - 1
    /\ UNCHANGED <<ssd, written>>
    /\ UNCHANGED notBridge

BridgeSetCS(state) ==
    /\ left > 0
    /\ sb' = SetCS(sb, state)
    /\ last' = [op |-> "SetCS", args |-> <<state>>, err |-> FALSE, val |-> 0]
    /\ left' = left - 1
    /\ UNCHANGED <<ssd, written>>
    /\ UNCHANGED notBridge

BridgeWrite(data) ==
    /\ left > 0
    /\ \E r \in {Write(sb, ssd, data)} :
           /\ sb' = r.sb
           /\ ssd' = r.s
           /\ last' = [op |-> "Write", args |-> <<data>>, err |-> r.err, val |-> 0]
    /\ left' = left - 1
    /\ UNCHANGED written
    /\ UNCHANGED notBridge

BridgeSendInitSequence(sequence) ==
    /\ left > 0
    /\ \E r \in {SendInitSequence(sb, ssd, sequence)} :
           /\ sb' = r.sb
           /\ ssd' = r.s
           /\ last' = [op |-> "SendInitSequence", args |-> <<sequence>>,
                        err |-> r.err, val |-> 0]
    /\ left' = left - 1
    /\ UNCHANGED written
    /\ UNCHANGED notBridge

CallBridgeReset ==
    /\ left > 0
    /\ \E r \in {BridgeReset(sb, ssd)} :
           /\ sb' = r.sb
           /\ ssd' = r.s
           /\ last' = [op |-> "BridgeReset", args |-> << >>, err |-> r.err, val |-> 0]
    /\ written' = [written EXCEPT !.all = TRUE]
    /\ left' = left - 1
    /\ UNCHANGED notBridge

\* the bridge's calls, and the direct call that sets the inversion flag
NextSPI ==
    \/ \E state \in BOOLEAN : BridgeSetDC(state)
    \/ \E state \in BOOLEAN : BridgeSetCS(state)
    \/ \E data \in BridgeWrites : BridgeWrite(data)
    \/ BridgeSendInitSequence(SSD1322InitSequence)
    \/ CallBridgeReset
    \/ CallProcessCommand(CmdInvertDisplay, <<1>>)

SpecSPI == InitSPI /\ [][NextSPI]_vars

\* SpecAnim: an Animator, its clients' calls and the frames its loop
\* processes, at most MaxAnimOps steps
MaxAnimOps == 6

Range(seq) == {seq[i] : i \in 1..Len(seq)}

InitAnim ==
    /\ ssd = NewSSD1322(DevWidth, DevHeight)
    /\ last = [op |-> "NewAnimator", args |-> << >>, err |-> FALSE, val |-> 0]
    /\ written = [all |-> FALSE, pts |-> {}, marked |-> FALSE]
    /\ left = MaxAnimOps
    /\ InitOthers

AnimStep(op, args, a) ==
    /\ left > 0
    /\ anim' = a
    /\ last' = [op |-> op, args |-> args, err |-> FALSE, val |-> 0]
    /\ left' = left - 1
    /\ UNCHANGED animHist
    /\ UNCHANGED notAnimator

\* each function is registered once
CallAddAnimation(fn) ==
    /\ fn \notin Range(anim.animations)
    /\ animHist.calls[fn] = 0
    /\ AnimStep("AddAnimation", <<fn>>, AddAnimation(anim, fn))

CallSetOnFrame ==
    /\ ~anim.onFrame
    /\ AnimStep("SetOnFrame", << >>, SetOnFrame(anim))

CallStart == AnimStep("Start", << >>, AnimStart(anim))

CallStop == AnimStep("Stop", << >>, AnimStop(anim))

CallClear == AnimStep("Clear", << >>, AnimClear(anim))

\* the loop goroutine receives a tick and calls update
CallUpdate ==
    /\ left > 0
    /\ \E r \in {update(anim, animHist)} :
           /\ anim' = r.a
           /\ animHist' = r.h
    /\ last' = [op |-> "update", args |-> << >>, err |-> FALSE, val |-> 0]
    /\ left' = left - 1
    /\ UNCHANGED notAnimator

NextAnim ==
    \/ \E fn \in AnimFns : CallAddAnimation(fn)
    \/ CallSetOnFrame
    \/ CallStart
    \/ CallStop
    \/ CallClear
    \/ CallUpdate

SpecAnim == InitAnim /\ [][NextAnim]_vars

\* SpecTween: a Tween of any of TweenDurations with an onComplete callback,
\* and at most MaxTweenOps calls of Update with any of TweenDts
MaxTweenOps == 5

TweenDurations == {0, 1, 2, 4}

TweenDts == {-1, 0, 1, 3}

InitTween ==
    /\ ssd = NewSSD1322(DevWidth, DevHeight)
    /\ last = [op |-> "NewTween", args |-> << >>, err |-> FALSE, val |-> 0]
    /\ written = [all |-> FALSE, pts |-> {}, marked |-> FALSE]
    /\ left = MaxTweenOps
    /\ InitBridge
    /\ InitAnimator
    /\ InitFrameBuffer
    /\ InitMono
    /\ InitRuntime
    /\ InitParallelOf(<<2, 2>>)
    /\ \E duration \in TweenDurations : InitTweenOf(duration)

CallTweenUpdate(dt) ==
    /\ left > 0
    /\ \E r \in {TweenUpdate(tween, tweenHist.onCompleteCalls, dt)} :
           /\ tween' = r.t
           /\ tweenHist' = [onCompleteCalls |-> r.calls]
           /\ last' = [op |-> "Update", args |-> <<dt>>, err |-> FALSE,
                       val |-> IF r.val THEN 1 ELSE 0]
    /\ left' = left - 1
    /\ UNCHANGED notTween

NextTween == \E dt \in TweenDts : CallTweenUpdate(dt)

SpecTween == InitTween /\ [][NextTween]_vars

\* SpecFB: a FrameBuffer on a 256x64 device, at most MaxFBOps calls
MaxFBOps == 4

InitFB ==
    /\ ssd = NewSSD1322(DevWidth, DevHeight)
    /\ last = [op |-> "NewFrameBuffer", args |-> << >>, err |-> FALSE, val |-> 0]
    /\ written = [all |-> FALSE, pts |-> {}, marked |-> FALSE]
    /\ left = MaxFBOps
    /\ InitOthers

CallFBSetPixel(x, y, color) ==
    /\ left > 0
    /\ \E r \in {FBSetPixel(fb, ssd, x, y, color)} :
           /\ fb' = r.fb
           /\ ssd' = r.s
           /\ last' = [op |-> "FrameBuffer.SetPixel", args |-> <<x, y, color>>,
                        err |-> r.err, val |-> 0]
           /\ written' = IF r.err THEN written
                         ELSE [written EXCEPT !.pts = @ \cup {<<x, y>>}]
    /\ left' = left - 1
    /\ UNCHANGED notFrameBuffer

CallFlush ==
    /\ left > 0
    /\ fb' = Flush(fb, ssd)
    /\ last' = [op |-> "FrameBuffer.Flush", args |-> << >>, err |-> FALSE, val |-> 0]
    /\ left' = left - 1
    /\ UNCHANGED <<ssd, written>>
    /\ UNCHANGED notFrameBuffer

CallRenderToImage ==
    /\ left > 0
    /\ \E r \in {RenderToImage(ssd)} :
           /\ ssd' = r.s
           /\ last' = [op |-> "RenderToImage", args |-> r.drawn, err |-> FALSE,
                        val |-> 0]
    /\ left' = left - 1
    /\ UNCHANGED <<fb, written>>
    /\ UNCHANGED notFrameBuffer

NextFB ==
    \/ \E p \in PixelPoints, color \in Colors : CallFBSetPixel(p[1], p[2], color)
    \/ CallFlush
    \/ CallRenderToImage

SpecFB == InitFB /\ [][NextFB]_vars

\* SpecSized: devices of the sizes of DeviceSizes, the window, Write RAM and
\* Reset commands and WriteData, at most MaxSizedOps calls
MaxSizedOps == 4

DeviceSizes == {<<256, 64>>, <<2, 2>>, <<3, 1>>}

SizedColumns == {<<0, 3>>, <<1, 2>>, <<0, 0>>}

SizedRows == {<<0, 1>>, <<0, 0>>}

InitSized ==
    /\ \E size \in DeviceSizes : ssd = NewSSD1322(size[1], size[2])
    /\ last = [op |-> "NewSSD1322", args |-> << >>, err |-> FALSE, val |-> 0]
    /\ written = [all |-> FALSE, pts |-> {}, marked |-> FALSE]
    /\ left = MaxSizedOps
    /\ InitOthers

NextSized ==
    \/ CallProcessCommand(CmdWriteRAM, << >>)
    \/ \E data \in SizedColumns : CallProcessCommand(CmdSetColumnAddress, data)
    \/ \E data \in SizedRows : CallProcessCommand(CmdSetRowAddress, data)
    \/ \E data \in ShortPayloads : CallWriteData(data)
    \/ CallReset

SpecSized == InitSized /\ [][NextSized]_vars

\* SpecMono: SetPixelVertical and GetPixelVertical on a VerticalByte VRAM, at
\* most MaxMonoOps calls
MaxMonoOps == 3

\* pixels in the first and in the second byte of a column, and outside
MonoPoints == {<<0, 0>>, <<0, 9>>, <<2, 7>>, <<2, 8>>, <<3, 0>>, <<0, 10>>, <<-1, 0>>}

MonoColors == {0, 1, 2, 3, 128, 254, 255}

InitVertical ==
    /\ ssd = NewSSD1322(DevWidth, DevHeight)
    /\ last = [op |-> "NewMemoryHelper", args |-> << >>, err |-> FALSE, val |-> 0]
    /\ written = [all |-> FALSE, pts |-> {}, marked |-> FALSE]
    /\ left = MaxMonoOps
    /\ InitOthers

CallSetPixelVertical(x, y, color) ==
    /\ left > 0
    /\ \E r \in {SetPixelVertical(mono, x, y, color)} :
           /\ mono' = [mono EXCEPT !.vram = r.vram]
           /\ monoHist' = IF r.err THEN monoHist
                          ELSE [lastSet |-> <<x, y, color>>]
           /\ last' = [op |-> "SetPixelVertical", args |-> <<x, y, color>>,
                        err |-> r.err, val |-> 0]
    /\ left' = left - 1
    /\ UNCHANGED notMono

CallGetPixelVertical(x, y) ==
    /\ left > 0
    /\ \E r \in {GetPixelVertical(mono, x, y)} :
           last' = [op |-> "GetPixelVertical", args |-> <<x, y>>,
                    err |-> r.err, val |-> r.val]
    /\ left' = left - 1
    /\ UNCHANGED <<mono, monoHist>>
    /\ UNCHANGED notMono

NextMono ==
    \/ \E p \in MonoPoints, color \in MonoColors :
           CallSetPixelVertical(p[1], p[2], color)
    \/ \E p \in MonoPoints : CallGetPixelVertical(p[1], p[2])

SpecMono == InitVertical /\ [][NextMono]_vars

\* SpecFill: FillRegionNibble on the device's VRAM between SetPixel calls, at
\* most MaxFillOps calls
MaxFillOps == 3

\* rectangles inside the viewport, crossing its right and lower edge, starting
\* left of it, and empty
FillRects ==
    {<<0, 0, 1, 1>>, <<254, 0, 256, 0>>, <<255, 62, 255, 64>>, <<-1, 0, 1, 0>>,
     <<3, 3, 2, 2>>, <<254, 63, 255, 63>>}

InitFill ==
    /\ ssd = NewSSD1322(DevWidth, DevHeight)
    /\ last = [op |-> "NewSSD1322", args |-> << >>, err |-> FALSE, val |-> 0]
    /\ written = [all |-> FALSE, pts |-> {}, marked |-> FALSE]
    /\ left = MaxFillOps
    /\ InitOthers

\* ssd.memory.FillRegionNibble(ssd.vram, ...)
CallFillRegionNibble(rect, color) ==
    /\ left > 0
    /\ UNCHANGED notDevice
    /\ \E r \in {FillRegionNibble(ssd, rect[1], rect[2], rect[3], rect[4], color)} :
           /\ ssd' = [ssd EXCEPT !.vram = r.vram]
           /\ last' = [op |-> "FillRegionNibble", args |-> <<rect, color>>,
                        err |-> r.err, val |-> 0]
    /\ left' = left - 1
    /\ UNCHANGED written

NextFill ==
    \/ \E rect \in FillRects, color \in Colors : CallFillRegionNibble(rect, color)
    \/ \E p \in PixelPoints : CallSetPixel(p[1], p[2], 10)

SpecFill == InitFill /\ [][NextFill]_vars

\* SpecLoop: an Animator with its goroutines.  Client threads call Start,
\* Stop, AddAnimation and SetOnFrame, at most MaxLoopOps calls; the tickers
\* deliver at most MaxTicks ticks.  Every critical section (a.mu held) is one
\* step; what Start and Stop do after unlocking is a step of its own.
MaxLoopOps == 4

MaxTicks == 2

InitLoop ==
    /\ ssd = NewSSD1322(DevWidth, DevHeight)
    /\ last = [op |-> "NewAnimator", args |-> << >>, err |-> FALSE, val |-> 0]
    /\ written = [all |-> FALSE, pts |-> {}, marked |-> FALSE]
    /\ left = MaxLoopOps
    /\ InitOthers

RemoveAt(seq, i) == [j \in 1..(Len(seq) - 1) |-> IF j < i THEN seq[j] ELSE seq[j + 1]]

Waiting(r) == {j \in DOMAIN r.loops : r.loops[j].pc = "waiting"}

AliveLoops(r) == {j \in DOMAIN r.loops : r.loops[j].pc # "done"}

LoopStep(op, args) ==
    /\ last' = [op |-> op, args |-> args, err |-> FALSE, val |-> 0]
    /\ UNCHANGED notRuntime

\* Start up to its Unlock
StartLocked ==
    /\ left > 0
    /\ left' = left - 1
    /\ anim' = AnimStart(anim)
    /\ rt' = [rt EXCEPT
                !.tickers = IF anim.running THEN @
                            ELSE Append(@, [stopped |-> FALSE, tick |-> FALSE]),
                !.spawns = IF anim.running THEN @ ELSE @ + 1,
                !.stops = [i \in DOMAIN @ |-> TRUE],
                !.afterStop = FALSE,
                !.afterRunningStop = FALSE]
    /\ UNCHANGED animHist
    /\ LoopStep("Start", << >>)

\* Start's `go a.loop()`
StartSpawn ==
    /\ rt.spawns > 0
    /\ rt' = [rt EXCEPT !.spawns = @ - 1,
                        !.loops = Append(@, [pc |-> "top", ticker |-> 0])]
    /\ UNCHANGED <<anim, animHist, left>>
    /\ LoopStep("go loop", << >>)

\* Stop up to its Unlock; when the animator is not running Stop returns here
StopLocked ==
    /\ left > 0
    /\ left' = left - 1
    /\ anim' = AnimStop(anim)
    /\ rt' = IF ~anim.running
             THEN [rt EXCEPT !.afterStop = TRUE]
             ELSE [rt EXCEPT
                     !.tickers = IF anim.ticker
                                 THEN [@ EXCEPT ![Len(@)].stopped = TRUE]
                                 ELSE @,
                     !.stops = Append(@, FALSE)]
    /\ UNCHANGED animHist
    /\ LoopStep("Stop", << >>)

\* Stop's select: the send on stopChan is taken when a loop goroutine is
\* blocked in its select, the default case otherwise; then Stop returns
StopSend(i) ==
    /\ i \in DOMAIN rt.stops
    /\ \E j \in IF Waiting(rt) = {} THEN {0} ELSE Waiting(rt) :
         rt' = [rt EXCEPT
                  !.loops = IF j = 0 THEN @ ELSE [@ EXCEPT ![j].pc = "done"],
                  !.stops = RemoveAt(@, i),
                  !.afterStop = IF rt.stops[i] THEN @ ELSE TRUE,
                  !.afterRunningStop = IF rt.stops[i] THEN @ ELSE TRUE]
    /\ UNCHANGED <<anim, animHist, left>>
    /\ LoopStep("Stop returns", << >>)

\* a ticker that is not stopped puts a tick into its channel C (capacity 1)
Tick(k) ==
    /\ k \in DOMAIN rt.tickers
    /\ ~rt.tickers[k].stopped /\ ~rt.tickers[k].tick
    /\ rt.ticks < MaxTicks
    /\ rt' = [rt EXCEPT !.tickers[k].tick = TRUE, !.ticks = @ + 1]
    /\ UNCHANGED <<anim, animHist, left>>
    /\ LoopStep("tick", <<k>>)

\* loop: the locked test of a.ticker at the top of the for
LoopTop(j) ==
    /\ j \in DOMAIN rt.loops /\ rt.loops[j].pc = "top"
    /\ rt' = [rt EXCEPT !.loops[j] =
                IF ~anim.ticker THEN [pc |-> "done", ticker |-> 0]
                ELSE [pc |-> "selecting", ticker |-> Len(rt.tickers)]]
    /\ UNCHANGED <<anim, animHist, left>>
    /\ LoopStep("loop", <<j>>)

\* loop: reaches the select and blocks in it
LoopSelect(j) ==
    /\ j \in DOMAIN rt.loops /\ rt.loops[j].pc = "selecting"
    /\ rt' = [rt EXCEPT !.loops[j].pc = "waiting"]
    /\ UNCHANGED <<anim, animHist, left>>
    /\ LoopStep("select", <<j>>)

\* loop: case <-ticker.C
LoopReceive(j) ==
    /\ j \in DOMAIN rt.loops /\ rt.loops[j].pc = "waiting"
    /\ rt.tickers[rt.loops[j].ticker].tick
    /\ rt' = [rt EXCEPT !.loops[j].pc = "ticked",
                        !.tickers[rt.loops[j].ticker].tick = FALSE]
    /\ UNCHANGED <<anim, animHist, left>>
    /\ LoopStep("receive", <<j>>)

\* loop: a.update()
LoopUpdate(j) ==
    /\ j \in DOMAIN rt.loops /\ rt.loops[j].pc = "ticked"
    /\ \E r \in {update(anim, animHist)} :
           /\ anim' = r.a
           /\ animHist' = r.h
    /\ rt' = [rt EXCEPT !.loops[j].pc = "top"]
    /\ UNCHANGED left
    /\ LoopStep("update", <<j>>)

LoopIds == 1..MaxLoopOps

GoroutineStep ==
    \/ StartSpawn
    \/ \E i \in LoopIds : StopSend(i)
    \/ \E j \in LoopIds : LoopTop(j)
    \/ \E j \in LoopIds : LoopSelect(j)
    \/ \E j \in LoopIds : LoopReceive(j)
    \/ \E j \in LoopIds : LoopUpdate(j)

NextLoop ==
    \/ StartLocked
    \/ StopLocked
    \/ CallAddAnimation(0)
    \/ CallSetOnFrame
    \/ \E k \in LoopIds : Tick(k)
    \/ GoroutineStep

SpecLoop == InitLoop /\ [][NextLoop]_vars

\* SpecLoopFair: SpecLoop in which no goroutine that can take a step waits
\* for ever
SpecLoopFair == SpecLoop /\ WF_vars(GoroutineStep)

\* SpecPar: a ParallelTween over the tweens of one of ParDurations, with an
\* onComplete callback, and at most MaxParOps calls of Update
MaxParOps == 4

ParDurations == {<<2, 2>>, <<2, 4>>, <<0, 2>>, <<0, 0>>, <<1>>, << >>}

InitPar ==
    /\ ssd = NewSSD1322(DevWidth, DevHeight)
    /\ last = [op |-> "NewParallelTween", args |-> << >>, err |-> FALSE, val |-> 0]
    /\ written = [all |-> FALSE, pts |-> {}, marked |-> FALSE]
    /\ left = MaxParOps
    /\ InitBridge
    /\ InitAnimator
    /\ InitFrameBuffer
    /\ InitMono
    /\ InitRuntime
    /\ InitTweenOf(2)
    /\ \E durations \in ParDurations : InitParallelOf(durations)

CallParUpdate(dt) ==
    /\ left > 0
    /\ \E r \in {ParUpdate(par, parHist.onCompleteCalls, dt)} :
           /\ par' = r.pt
           /\ parHist' = [onCompleteCalls |-> r.calls]
           /\ last' = [op |-> "ParallelTween.Update", args |-> <<dt>>,
                       err |-> FALSE, val |-> IF r.val THEN 1 ELSE 0]
    /\ left' = left - 1
    /\ UNCHANGED notParallel

NextPar == \E dt \in TweenDts : CallParUpdate(dt)

SpecPar == InitPar /\ [][NextPar]_vars

\* SpecGeom: SetPixel and GetPixel on devices of the sizes of GeomSizes, at
\* most MaxGeomOps calls
MaxGeomOps == 3

\* the usual panel, the widest device whose rows fit the 480 internal columns
\* behind the offset 28, and devices one pixel wider than that and wider than
\* the internal plane
GeomSizes == {<<256, 64>>, <<452, 2>>, <<453, 1>>, <<481, 2>>, <<1, 1>>}

GeomPoints ==
    {<<0, 0>>, <<0, 1>>, <<255, 63>>, <<451, 1>>, <<452, 0>>, <<480, 0>>,
     <<453, 0>>}

InitGeom ==
    /\ \E size \in GeomSizes : ssd = NewSSD1322(size[1], size[2])
    /\ last = [op |-> "NewSSD1322", args |-> << >>, err |-> FALSE, val |-> 0]
    /\ written = [all |-> FALSE, pts |-> {}, marked |-> FALSE]
    /\ left = MaxGeomOps
    /\ InitOthers

NextGeom ==
    \/ \E p \in GeomPoints, color \in {10, 245} : CallSetPixel(p[1], p[2], color)
    \/ \E p \in GeomPoints : CallGetPixel(p[1], p[2])

SpecGeom == InitGeom /\ [][NextGeom]_vars

---------------------------------------------------------------------------
(* Properties *)

\* coordinates the properties read pixels at
ProbeXs == {0, 1, 2, 254, 255}
ProbeYs == {0, 63}

InViewport(s, x, y) == 0 <= x /\ x < Width(s) /\ 0 <= y /\ y < Height(s)

Is256x64(s) == Width(s) = 256 /\ Height(s) = 64

\* C1: on a 256x64 device, SetPixel(x, y, v) on an in-viewport coordinate
\* returns no error and GetPixel(x, y) right after it returns v & 0x0F.
C1_RoundTrip ==
    (last.op = "SetPixel" /\ Is256x64(ssd)
       /\ InViewport(ssd, last.args[1], last.args[2])) =>
      /\ ~last.err
      /\ GetPixel(ssd, last.args[1], last.args[2])
           = [err |-> FALSE, val |-> BitAnd(last.args[3], 15)]

\* SetPixel(255, 63, 0xF5) has returned, and the odd pixel (255, 63) holds 5
C1_Witness ==
    /\ last.op = "SetPixel" /\ last.args = <<255, 63, 245>> /\ ~last.err
    /\ GetPixel(ssd, 255, 63).val = 5

\* C2: SetPixel(x, y, v) on an in-viewport coordinate leaves GetPixel of every
\* other in-viewport coordinate unchanged, the pixel of the same VRAM byte
\* included; no VRAM byte but the pixel's own changes.
C2_NoCrossTalk ==
    [][(last'.op = "SetPixel"
          /\ InViewport(ssd, last'.args[1], last'.args[2])) =>
         /\ \A x2 \in ProbeXs, y2 \in ProbeYs :
              (InViewport(ssd, x2, y2)
                 /\ <<x2, y2>> # <<last'.args[1], last'.args[2]>>) =>
                GetPixel(ssd', x2, y2) = GetPixel(ssd, x2, y2)
         /\ \A i \in (DOMAIN ssd.vram) \cup (DOMAIN ssd'.vram) :
              i # PixelToByteOffsetNibble(ssd, last'.args[1], last'.args[2]).byteOffset
                => VramGet(ssd'.vram, i) = VramGet(ssd.vram, i)]_vars

\* SetPixel has just stored into pixel (1, 0) while pixel (0, 0) of the same
\* VRAM byte held a non-zero value, which it still holds
C2_Witness ==
    /\ last.op = "SetPixel" /\ ~last.err
    /\ last.args[1] = 1 /\ last.args[2] = 0 /\ last.args[3] = 245
    /\ <<0, 0>> \in written.pts
    /\ PixelToByteOffsetNibble(ssd, 0, 0).byteOffset
         = PixelToByteOffsetNibble(ssd, 1, 0).byteOffset
    /\ GetPixel(ssd, 0, 0).val = 10
    /\ GetPixel(ssd, 1, 0).val = 5

InRegion(reg, x, y) ==
    reg[1] <= x /\ x <= reg[3] /\ reg[2] <= y /\ y <= reg[4]

\* C3: after any sequence of calls, every in-viewport pixel stored since
\* construction or since the last ClearDirtyRegion lies inside GetDirtyRegion
\* (Reset stores every pixel of the viewport).
C3_DirtyCovers ==
    \A reg \in {GetDirtyRegion(ssd)} :
      /\ \A p \in written.pts : InRegion(reg, p[1], p[2])
      /\ written.all =>
           /\ InRegion(reg, 0, 0)
           /\ InRegion(reg, Width(ssd) - 1, Height(ssd) - 1)

\* two pixels far apart were stored and a third call followed
C3_Witness ==
    /\ {<<0, 0>>, <<255, 63>>} \subseteq written.pts
    /\ ~written.all
    /\ GetDirtyRegion(ssd) = <<0, 0, 255, 63>>

CursorInWindow(s) ==
    /\ s.columnStart <= s.currentColumn /\ s.currentColumn <= s.columnEnd
    /\ s.rowStart <= s.currentRow /\ s.currentRow <= s.rowEnd

FullWindow(s) ==
    /\ s.columnStart = 0 /\ s.columnEnd = Width(s) - 1
    /\ s.rowStart = 0 /\ s.rowEnd = Height(s) - 1

\* C4: in DataPhase on a 256x64 device with the cursor inside the address
\* window, WriteData of one byte b stores b & 0x0F at viewport pixel
\* (curCol - colStart, curRow) and (b >> 4) & 0x0F at the pixel right of it,
\* for each of the two that is inside the viewport; byte 0xF5 at cursor (0, 0)
\* of the full window gives GetPixel(0, 0) = 5 and GetPixel(1, 0) = 15.
C4_PayloadNibbles ==
    [][(last'.op = "WriteData" /\ Len(last'.args[1]) = 1
          /\ ssd.dataMode /\ Is256x64(ssd) /\ CursorInWindow(ssd)) =>
         LET b   == last'.args[1][1]
             dc  == ssd.currentColumn - ssd.columnStart
             row == ssd.currentRow
         IN  /\ InViewport(ssd, dc, row) =>
                  GetPixel(ssd', dc, row) = [err |-> FALSE, val |-> BitAnd(b, 15)]
             /\ InViewport(ssd, dc + 1, row) =>
                  GetPixel(ssd', dc + 1, row)
                    = [err |-> FALSE, val |-> BitAnd(ShiftRight(b, 4), 15)]
             /\ (FullWindow(ssd) /\ ssd.currentColumn = 0 /\ ssd.currentRow = 0
                   /\ b = 245) =>
                  /\ GetPixel(ssd', 0, 0).val = 5
                  /\ GetPixel(ssd', 1, 0).val = 15]_vars

\* WriteData of the byte 0xF5 at cursor (0, 0) of the full window has returned
C4_Witness ==
    /\ last.op = "WriteData" /\ last.args = << <<245>> >> /\ ~last.err
    /\ FullWindow(ssd) /\ ssd.currentColumn = 1 /\ ssd.currentRow = 0
    /\ GetPixel(ssd, 0, 0).val = 5
    /\ GetPixel(ssd, 1, 0).val = 15

\* C5: in DataPhase each payload byte advances curCol by the 2 sub-pixels it
\* decodes before the wraparound, so two consecutive payload bytes of a row
\* never store into the same pixel.
C5_AdvanceBySubPixels ==
    [][(last'.op = "WriteData" /\ ssd.dataMode /\ CursorInWindow(ssd)
          /\ ssd.columnStart <= ssd.columnEnd /\ ssd.rowStart <= ssd.rowEnd) =>
         /\ Len(last'.args[1]) = 1 =>
              ssd'.currentColumn = IF ssd.currentColumn + 2 > ssd.columnEnd
                                   THEN ssd.columnStart
                                   ELSE ssd.currentColumn + 2
         /\ Len(last'.args[1]) = 2 =>
              \A r1 \in {WriteData(ssd, <<last'.args[1][1]>>)} :
                \A r2 \in {WriteData(r1.s, <<last'.args[1][2]>>)} :
                  (/\ r1.s.currentRow = ssd.currentRow
                   /\ r1.s.currentColumn > ssd.currentColumn)
                    => r1.wrote \cap r2.wrote = {}]_vars

\* C6: in every reachable state the cursor lies inside the address window.
C6_CursorInWindow == CursorInWindow(ssd)

\* C7: on a 256x64 device in DataPhase with colStart <= colEnd and
\* rowStart <= rowEnd, WriteData returns no error; a payload byte that moves
\* curCol past colEnd sets it to colStart and increments curRow, and a curRow
\* that would pass rowEnd is set to rowStart; with the window [254,255] x [0,0]
\* and the cursor at its start, 3 payload bytes take curCol to 255, back to
\* 254 and to 255 while curRow stays 0.
C7_Wraparound ==
    [][(last'.op = "WriteData" /\ ssd.dataMode /\ Is256x64(ssd)
          /\ ssd.columnStart <= ssd.columnEnd /\ ssd.rowStart <= ssd.rowEnd) =>
         /\ ~last'.err
         /\ (Len(last'.args[1]) = 1 /\ ssd.currentColumn + 1 > ssd.columnEnd) =>
              /\ ssd'.currentColumn = ssd.columnStart
              /\ ssd'.currentRow = IF ssd.currentRow + 1 > ssd.rowEnd
                                   THEN ssd.rowStart
                                   ELSE ssd.currentRow + 1
         /\ (Len(last'.args[1]) = 1 /\ ssd.currentColumn + 1 <= ssd.columnEnd) =>
              ssd'.currentRow = ssd.currentRow
         /\ (/\ Len(last'.args[1]) = 3
             /\ ssd.columnStart = 254 /\ ssd.columnEnd = 255
             /\ ssd.rowStart = 0 /\ ssd.rowEnd = 0
             /\ ssd.currentColumn = 254 /\ ssd.currentRow = 0) =>
              \A r1 \in {WriteData(ssd, SubSeq(last'.args[1], 1, 1))} :
                \A r2 \in {WriteData(ssd, SubSeq(last'.args[1], 1, 2))} :
                  /\ r1.s.currentColumn = 255 /\ r1.s.currentRow = 0
                  /\ r2.s.currentColumn = 254 /\ r2.s.currentRow = 0
                  /\ ssd'.currentColumn = 255 /\ ssd'.currentRow = 0]_vars

\* WriteData of 3 bytes has returned in the window [254,255] x [0,0]
C7_Witness ==
    /\ last.op = "WriteData" /\ Len(last.args[1]) = 3 /\ ~last.err
    /\ ssd.columnStart = 254 /\ ssd.columnEnd = 255
    /\ ssd.rowStart = 0 /\ ssd.rowEnd = 0
    /\ ssd.currentColumn = 255 /\ ssd.currentRow = 0
    /\ <<2, 0>> \in written.pts

ScalarFields ==
    {"contrastLevel", "masterCurrentLevel", "invertDisplay", "multiplexRatio",
     "clockDivider", "phaseLength", "prechargeVoltage", "vcomhLevel",
     "remapSettings", "startLine", "displayOffset", "grayscaleTableMode",
     "scrollEnabled"}

\* C8: after Reset every configuration scalar has the value NewSSD1322 gives it.
C8_ResetDefaults ==
    last.op = "Reset" =>
      \A f \in ScalarFields : ssd[f] = NewSSD1322(Width(ssd), Height(ssd))[f]

\* C9: after Reset, from any VRAM contents and any dirty state, every VRAM
\* byte is zero and GetDirtyRegion is the full viewport.
C9_ResetClears ==
    last.op = "Reset" =>
      /\ \A i \in DOMAIN ssd.vram : VramGet(ssd.vram, i) = 0
      /\ \A x \in ProbeXs, y \in ProbeYs : GetPixel(ssd, x, y).val = 0
      /\ GetDirtyRegion(ssd) = <<0, 0, Width(ssd) - 1, Height(ssd) - 1>>

\* Reset has returned on a device whose pixels had been stored into
C9_Witness ==
    /\ last.op = "Reset" /\ ~last.err
    /\ written.pts # {}

FlipLock(s) == [s EXCEPT !.commandLocked = ~@]

SameButLock(s1, s2) ==
    [s1 EXCEPT !.commandLocked = FALSE] = [s2 EXCEPT !.commandLocked = FALSE]

C11_LockOpcode ==
    [][/\ (last'.op = "ProcessCommand" /\ last'.args[1] = CmdCommandLock) =>
            LET data == last'.args[2]
            IN  ssd'.commandLocked =
                  IF Len(data) > 0 /\ data[1] = 177 THEN FALSE
                  ELSE IF Len(data) > 0 /\ data[1] = 176 THEN TRUE
                  ELSE ssd.commandLocked
       /\ (last'.op # "Reset"
             /\ ~(last'.op = "ProcessCommand" /\ last'.args[1] = CmdCommandLock)) =>
            ssd'.commandLocked = ssd.commandLocked]_vars

\* an Unlocked controller has executed the lock command with an argument
\* that is neither 0xB0 nor 0xB1, and is still Unlocked
C11_Witness ==
    /\ last.op = "ProcessCommand" /\ last.args = <<CmdCommandLock, <<245>>>>
    /\ ~ssd.commandLocked

\* C12: for an opcode that neither switch of ProcessCommand has a case for
\* (0x00, and 0x27 which is only declared) and an argument list of any length,
\* ProcessCommand returns no error and leaves the whole device as it was: the
\* lock, phase and display flags, every scalar, the address window and the
\* cursor, VRAM and the dirty region.
C12_UnknownOpcode ==
    [][(last'.op = "ProcessCommand"
          /\ last'.args[1] \notin FirstSwitch \cup SecondSwitch) =>
         /\ ~last'.err
         /\ ssd' = ssd]_vars

\* opcode 0x00 with 5 argument bytes has been processed by a controller that
\* is Unlocked with a pixel stored
C12_Witness ==
    /\ last.op = "ProcessCommand" /\ last.args = <<0, <<1, 2, 3, 4, 5>>>>
    /\ ~last.err
    /\ ~ssd.commandLocked
    /\ GetPixel(ssd, 255, 63).val = 5
    /\ GetDirtyRegion(ssd) = <<255, 63, 255, 63>>

\* C13: ProcessCommand of an opcode that takes arguments (2 bytes for the
\* column and the row window, 1 for the lock command and each scalar command,
\* 5 for the scroll setup) called with fewer bytes than that returns no error
\* and changes nothing; a window command given one byte changes neither bound
\* nor the cursor.
C13_ShortArguments ==
    [][(last'.op = "ProcessCommand"
          /\ Len(last'.args[2]) < RequiredArgs(last'.args[1])) =>
         /\ ~last'.err
         /\ ssd' = ssd]_vars

\* the column window command with the single byte 5 has been processed and
\* the window set before it stands
C13_Witness ==
    /\ last.op = "ProcessCommand" /\ last.args = <<CmdSetColumnAddress, <<5>>>>
    /\ ~last.err
    /\ ssd.columnStart = 254 /\ ssd.columnEnd = 255 /\ ssd.currentColumn = 254

\* C14: SetPixel and GetPixel called with x < 0, x >= Width, y < 0 or
\* y >= Height return an error, and a SetPixel that returns an error leaves
\* VRAM and the dirty region as they were (GetPixel(-1, 0) and
\* SetPixel(300, 0, v) on the 256-wide viewport among them).
C14_BoundsError ==
    [][/\ (last'.op \in {"SetPixel", "GetPixel"}
             /\ (\/ last'.args[1] < 0 \/ last'.args[1] >= Width(ssd)
                 \/ last'.args[2] < 0 \/ last'.args[2] >= Height(ssd))) =>
            last'.err
       /\ (last'.op = "SetPixel" /\ last'.err) =>
            /\ ssd'.vram = ssd.vram
            /\ GetDirtyRegion(ssd') = GetDirtyRegion(ssd)]_vars

\* SetPixel(300, 0, v) has failed on a 256-wide device that holds a pixel
C14_Witness ==
    /\ last.op = "SetPixel" /\ last.args[1] = 300 /\ last.args[2] = 0
    /\ last.err
    /\ Width(ssd) = 256
    /\ GetPixel(ssd, 255, 63).val = 10
    /\ GetDirtyRegion(ssd) = <<255, 63, 255, 63>>

\* C15 as stated: WriteData returns no error for any payload in any
\* reachable state of the controller (any phase, window and cursor).
C15_NoErrorPath == last.op = "WriteData" => ~last.err

\* C15 amended: WriteData returns an error exactly when the controller is in
\* CommandPhase, and then changes nothing; in DataPhase it returns no error
\* for any payload, address window and cursor position.
C15_ErrorIffCommandPhase ==
    [][last'.op = "WriteData" =>
         /\ last'.err <=> ~ssd.dataMode
         /\ last'.err => ssd' = ssd]_vars

\* WriteData of 3 bytes has been refused in CommandPhase, after a Reset and
\* a column window set since
C15_Witness ==
    /\ last.op = "WriteData" /\ Len(last.args[1]) = 3 /\ last.err
    /\ ~ssd.dataMode
    /\ written.all
    /\ ssd.columnStart = 254 /\ ssd.currentColumn = 254

EmptyMarker == <<-1, -1, -1, -1>>

\* C16: GetDirtyRegion returns (-1,-1,-1,-1) exactly when no MarkDirty call,
\* no successful pixel store and no Reset has happened since construction or
\* since the last ClearDirtyRegion; it returns it on a fresh device and right
\* after ClearDirtyRegion.
C16_EmptyMarker ==
    /\ (GetDirtyRegion(ssd) = EmptyMarker)
          <=> ~(written.marked \/ written.all \/ written.pts # {})
    /\ last.op \in {"NewSSD1322", "ClearDirtyRegion"} =>
          GetDirtyRegion(ssd) = EmptyMarker

\* ClearDirtyRegion has returned on a device that holds a stored pixel
C16_Witness ==
    /\ last.op = "ClearDirtyRegion"
    /\ GetPixel(ssd, 0, 0).val = 10
    /\ GetDirtyRegion(ssd) = EmptyMarker

\* the rectangle MarkDirty merges: its argument after the clamping of the two
\* lower coordinates to 0 and of the two upper ones to Width-1 and Height-1
ClampedArg(s, rect) ==
    <<IF rect[1] < 0 THEN 0 ELSE rect[1],
      IF rect[2] < 0 THEN 0 ELSE rect[2],
      IF rect[3] >= Width(s) THEN Width(s) - 1 ELSE rect[3],
      IF rect[4] >= Height(s) THEN Height(s) - 1 ELSE rect[4]>>

Min(a, b) == IF a < b THEN a ELSE b
Max(a, b) == IF a > b THEN a ELSE b

\* reg2 contains reg1
Contains(reg2, reg1) ==
    /\ reg2[1] <= reg1[1] /\ reg2[2] <= reg1[2]
    /\ reg2[3] >= reg1[3] /\ reg2[4] >= reg1[4]

C18_DirtyInViewport ==
    ssd.hasDirty =>
      \A reg \in {GetDirtyRegion(ssd)} :
        /\ 0 <= reg[1] /\ reg[1] <= reg[3] /\ reg[3] <= Width(ssd) - 1
        /\ 0 <= reg[2] /\ reg[2] <= reg[4] /\ reg[4] <= Height(ssd) - 1

\* C19: ProcessCommand(0x15, [s, e]) sets colStart = s, colEnd = e and
\* curCol = s, and ProcessCommand(0x75, [s, e]) sets rowStart = s, rowEnd = e
\* and curRow = s; each leaves the other axis, the phase, the flags, every
\* scalar, VRAM and the dirty region as they were, and returns no error.
C19_WindowSetFrame ==
    [][(last'.op = "ProcessCommand" /\ Len(last'.args[2]) = 2) =>
         LET b1 == last'.args[2][1]
             b2 == last'.args[2][2]
         IN  /\ last'.args[1] = 21 =>
                  /\ ~last'.err
                  /\ ssd' = [ssd EXCEPT !.columnStart = b1, !.columnEnd = b2,
                                        !.currentColumn = b1]
             /\ last'.args[1] = 117 =>
                  /\ ~last'.err
                  /\ ssd' = [ssd EXCEPT !.rowStart = b1, !.rowEnd = b2,
                                        !.currentRow = b1]]_vars

\* the row window [254, 255] has been set on a controller whose column
\* window had been set to [5, 3]
C19_Witness ==
    /\ last.op = "ProcessCommand" /\ last.args = <<CmdSetRowAddress, <<254, 255>>>>
    /\ ssd.rowStart = 254 /\ ssd.rowEnd = 255 /\ ssd.currentRow = 254
    /\ ssd.columnStart = 5 /\ ssd.columnEnd = 3 /\ ssd.currentColumn = 5

\* C20: a freshly constructed controller, and a controller right after
\* Reset from any state, is Locked, in CommandPhase and Asleep, with the
\* address window colStart = 0, colEnd = Width-1, rowStart = 0,
\* rowEnd = Height-1 and the cursor at (0, 0).
C20_InitialState ==
    last.op \in {"NewSSD1322", "Reset"} =>
      /\ ssd.commandLocked
      /\ ~ssd.dataMode
      /\ ~ssd.displayOn
      /\ ssd.columnStart = 0 /\ ssd.columnEnd = Width(ssd) - 1
      /\ ssd.rowStart = 0 /\ ssd.rowEnd = Height(ssd) - 1
      /\ ssd.currentColumn = 0 /\ ssd.currentRow = 0

\* Reset has returned on a controller that was in DataPhase with its cursor
\* moved by two payload bytes (pixel (2, 0) is stored by payload bytes only)
C20_Witness ==
    /\ last.op = "Reset"
    /\ <<2, 0>> \in written.pts
    /\ ssd.commandLocked /\ ~ssd.dataMode /\ ssd.currentColumn = 0

\* a write that reaches the device as commands: chip selected, DC low
CommandWrite(b) == ~b.csPin /\ ~b.dcPin

\* C21: after the device has processed the bytes of InversionCommand(true)
\* (opcode 0xA7, no data bytes) IsInverted() is true, and after those of
\* InversionCommand(false) (opcode 0xA6, no data bytes) it is false.
C21_InversionOpcodes ==
    [][(last'.op = "Write" /\ CommandWrite(sb)) =>
         /\ last'.args[1] = InversionCommand(TRUE) => IsInverted(ssd')
         /\ last'.args[1] = InversionCommand(FALSE) => ~IsInverted(ssd')]_vars

\* C22: bytes written to the bridge with DC low and CS low reach the device
\* as framed commands: a command byte followed by the number of data bytes
\* the catalogue gives it leaves the device as ProcessCommand(opcode, those
\* bytes) does, so writing ContrastCommand(level) leaves the contrast at level.
C22_FramedCommands ==
    [][(last'.op = "Write" /\ CommandWrite(sb) /\ Len(last'.args[1]) > 0
          /\ DataBytes(last'.args[1][1]) = Len(last'.args[1]) - 1) =>
         LET data == last'.args[1]
         IN  /\ ssd' = ProcessCommand(ssd, data[1], Tail(data)).s
             /\ \A level \in 0..255 :
                  data = ContrastCommand(level) => GetContrastLevel(ssd') = level]_vars

\* C23: after SendInitSequence(SSD1322InitSequence()) on a fresh device behind
\* a fresh bridge the controller is Unlocked, the display is on and the
\* address window is columns 0x1C..0x5B, rows 0x00..0x3F.
C23_InitSequence ==
    [][(last'.op = "SendInitSequence" /\ last'.args[1] = SSD1322InitSequence
          /\ ssd = NewSSD1322(DevWidth, DevHeight) /\ sb = NewSPIBridge) =>
         /\ ~last'.err
         /\ ~ssd'.commandLocked
         /\ IsDisplayOn(ssd')
         /\ ssd'.columnStart = 28 /\ ssd'.columnEnd = 91
         /\ ssd'.rowStart = 0 /\ ssd'.rowEnd = 63]_vars

\* C24: after a Write RAM command (0x5C) sent through the bridge, a byte
\* written with DC high and CS low is stored in VRAM at the address cursor,
\* 2 pixels per byte: GetPixel of the addressed pixels gives its nibbles.
C24_BridgePayload ==
    [][(last'.op = "Write" /\ sb.dcPin /\ ~sb.csPin /\ ssd.dataMode
          /\ Len(last'.args[1]) = 1 /\ CursorInWindow(ssd)) =>
         LET b   == last'.args[1][1]
             dc  == ssd.currentColumn - ssd.columnStart
             row == ssd.currentRow
         IN  /\ InViewport(ssd, dc, row) =>
                  GetPixel(ssd', dc, row).val = BitAnd(b, 15)
             /\ InViewport(ssd, dc + 1, row) =>
                  GetPixel(ssd', dc + 1, row).val = BitAnd(ShiftRight(b, 4), 15)]_vars

\* the step is a frame the animator processes: update on a running animator
ProcessedFrame == last'.op = "update" /\ anim.running

\* C25: an animation function registered with AddAnimation is invoked once
\* in every processed frame and in no other step, stays registered until the
\* call in which it first returns true (or until Clear), and is not
\* registered and not invoked after that call; the function that returns
\* true on its 3rd call is invoked exactly 3 times, and when it was the only
\* one registered the animation count is then 0.
C25_AnimationLifetime ==
    [][\A k \in AnimFns :
         LET reg == k \in Range(anim.animations)
             n   == animHist.calls[k]
             n2  == animHist'.calls[k]
         IN  /\ n2 = IF ProcessedFrame /\ reg THEN n + 1 ELSE n
             /\ (reg /\ last'.op # "Clear"
                   /\ ~(ProcessedFrame /\ FnReturns(k, n + 1))) =>
                  k \in Range(anim'.animations)
             /\ FnReturns(k, n) => ~reg
             /\ FnReturns(k, n2) => k \notin Range(anim'.animations)
             /\ (k = 3 /\ FnReturns(k, n2)) =>
                  /\ n2 = 3
                  /\ (ProcessedFrame /\ anim.animations = <<3>>) =>
                       GetAnimationCount(anim') = 0]_vars

\* the function that returns true on its 3rd call has been invoked 3 times by
\* a running animator and is no longer registered
C25_Witness ==
    /\ last.op = "update" /\ anim.running
    /\ animHist.calls[3] = 3
    /\ GetAnimationCount(anim) = 0
    /\ anim.frameCount = 3

\* C26: for a Tween of any duration >= 0 with an onComplete callback,
\* whenever IsComplete() is true after an Update call the callback has been
\* invoked, and it is never invoked more than once.
C26_CompleteImpliesCallback ==
    /\ tweenHist.onCompleteCalls <= 1
    /\ (last.op = "Update" /\ IsComplete(tween)) => tweenHist.onCompleteCalls = 1

\* C27: IsDirty() is true after every FrameBuffer.SetPixel that succeeds, is
\* false right after every Flush, and a FrameBuffer.SetPixel that fails with a
\* bounds error leaves the flag as it was.
C27_FrameBufferDirty ==
    [][/\ (last'.op = "FrameBuffer.SetPixel" /\ ~last'.err) => IsDirty(fb')
       /\ (last'.op = "FrameBuffer.SetPixel" /\ last'.err) =>
            IsDirty(fb') = IsDirty(fb)
       /\ last'.op = "FrameBuffer.Flush" => ~IsDirty(fb')]_vars

\* a pixel was set and flushed (the copy holds it), and then a SetPixel
\* outside the viewport failed and left the flag false
C27_Witness ==
    /\ last.op = "FrameBuffer.SetPixel" /\ last.err
    /\ ~IsDirty(fb)
    /\ fb.buffer # EmptyVRAM

\* the window holds more than one cell
SeveralCells(s) == s.columnEnd > s.columnStart \/ s.rowEnd > s.rowStart

\* C28: in DataPhase, on a device of any width and under any address window
\* (here: one of several cells with the cursor inside it), a payload byte
\* returns no error and moves the cursor, and when its column, counted from
\* the window's start, is not below Width it stores nothing.
C28_DroppedByteAdvances ==
    [][(/\ last'.op = "WriteData" /\ Len(last'.args[1]) = 1
        /\ ssd.dataMode
        /\ CursorInWindow(ssd) /\ SeveralCells(ssd)) =>
         /\ ~last'.err
         /\ <<ssd'.currentColumn, ssd'.currentRow>> #
              <<ssd.currentColumn, ssd.currentRow>>
         /\ ssd.currentColumn - ssd.columnStart >= Width(ssd) =>
              ssd'.vram = ssd.vram]_vars

\* C29: arguments are masked, not rejected: in every state the master-current
\* scalar is in 0..0x0F and the start-line scalar in 0..0x7F; a master-current
\* command stores argument & 0x0F, a start-line command argument & 0x7F, an
\* invert command makes the flag bit 0 of its argument, and the flag changes
\* in no other step but Reset; ProcessCommand returns no error for any
\* argument.
C29_MaskedArguments ==
    [][LET cmd  == last'.args[1]
           data == last'.args[2]
           isCmd(c) == last'.op = "ProcessCommand" /\ cmd = c /\ Len(data) > 0
       IN  /\ ssd'.masterCurrentLevel \in 0..15
           /\ ssd'.startLine \in 0..127
           /\ last'.op = "ProcessCommand" => ~last'.err
           /\ isCmd(CmdMasterContrast) =>
                ssd'.masterCurrentLevel = BitAnd(data[1], 15)
           /\ isCmd(CmdSetStartLine) => ssd'.startLine = BitAnd(data[1], 127)
           /\ isCmd(CmdInvertDisplay) =>
                ssd'.invertDisplay = (data[1] % 2 = 1)
           /\ (~isCmd(CmdInvertDisplay) /\ last'.op # "Reset") =>
                ssd'.invertDisplay = ssd.invertDisplay]_vars

\* 0xFE was stored as master current 0x0E and as start line 0x7E, and the
\* invert command with the odd argument 0xF5 then set the flag
C29_Witness ==
    /\ last.op = "ProcessCommand" /\ last.args = <<CmdInvertDisplay, <<245>>>>
    /\ ssd.invertDisplay
    /\ ssd.masterCurrentLevel = 14
    /\ ssd.startLine = 126

\* GetPixelVertical(x, y) has just been called and the last SetPixelVertical
\* that succeeded was of the same pixel
ReadBackOfLastSet ==
    /\ last.op = "GetPixelVertical" /\ ~last.err
    /\ monoHist.lastSet # << >>
    /\ last.args = <<monoHist.lastSet[1], monoHist.lastSet[2]>>

\* C30: in the 1-bit packed format a pixel write truncates the value to one
\* bit: SetPixelVertical(x, y, v) followed by GetPixelVertical(x, y) returns
\* v & 1.
C30_VerticalTruncates ==
    ReadBackOfLastSet => last.val = monoHist.lastSet[3] % 2

\* C30, amended: SetPixelVertical(x, y, v) followed by GetPixelVertical(x, y)
\* returns 1 when v is not 0 and 0 when v is 0.
C30_VerticalThreshold ==
    ReadBackOfLastSet =>
      last.val = IF monoHist.lastSet[3] # 0 THEN 1 ELSE 0

\* the even value 2 was written to bit 1 of a column's second byte and read
\* back as 1
C30_Witness ==
    /\ ReadBackOfLastSet
    /\ monoHist.lastSet = <<0, 9, 2>>
    /\ last.val = 1

\* C31: a region fill succeeds completely or leaves no partial state:
\* whenever FillRegionNibble returns an error the VRAM is byte for byte what
\* it was before the call.
C31_FillAllOrNothing ==
    [][(last'.op = "FillRegionNibble" /\ last'.err) => ssd'.vram = ssd.vram]_vars

\* the step takes the controller from CommandPhase to DataPhase
LeavesCommandPhase == ~ssd.dataMode /\ ssd'.dataMode

\* C32: the controller leaves CommandPhase only by processing the Write-RAM
\* opcode 0x5C; WriteData changes VRAM only in DataPhase, and Reset returns to
\* CommandPhase, so wherever WriteData can modify VRAM a 0x5C has been
\* processed since construction or the last Reset.
C32_OnlyWriteRAM ==
    [][/\ LeavesCommandPhase =>
            (last'.op = "ProcessCommand" /\ last'.args[1] = CmdWriteRAM)
       /\ (last'.op = "WriteData" /\ ssd'.vram # ssd.vram) => ssd.dataMode
       /\ last'.op = "Reset" => ~ssd'.dataMode]_vars

\* C32, amended: the controller leaves CommandPhase only by processing the
\* Write-RAM opcode 0x5C or the Read-RAM opcode 0x5D, and either of them
\* does; WriteData changes VRAM only in DataPhase, and Reset returns to
\* CommandPhase.
C32_OnlyRAMOpcodes ==
    [][/\ LeavesCommandPhase =>
            (last'.op = "ProcessCommand"
             /\ last'.args[1] \in {CmdWriteRAM, CmdReadRAM})
       /\ (last'.op = "ProcessCommand"
            /\ last'.args[1] \in {CmdWriteRAM, CmdReadRAM}) => ssd'.dataMode
       /\ (last'.op = "WriteData" /\ ssd'.vram # ssd.vram) => ssd.dataMode
       /\ last'.op = "Reset" => ~ssd'.dataMode]_vars

\* the first call on a new device was the Read-RAM opcode, and it took the
\* controller to DataPhase
C32_Witness ==
    /\ last.op = "ProcessCommand" /\ last.args = <<CmdReadRAM, << >>>>
    /\ left = MaxOps - 1
    /\ ssd.dataMode

\* C33: WriteData called in CommandPhase changes neither VRAM, the cursor,
\* the address window, the dirty region nor any flag or scalar, whatever the
\* payload.
C33_CommandPhaseFrame ==
    [][(last'.op = "WriteData" /\ ~ssd.dataMode) =>
         /\ ssd'.vram = ssd.vram
         /\ <<ssd'.currentColumn, ssd'.currentRow>> =
              <<ssd.currentColumn, ssd.currentRow>>
         /\ <<ssd'.columnStart, ssd'.columnEnd, ssd'.rowStart, ssd'.rowEnd>> =
              <<ssd.columnStart, ssd.columnEnd, ssd.rowStart, ssd.rowEnd>>
         /\ GetDirtyRegion(ssd') = GetDirtyRegion(ssd)
         /\ ssd'.hasDirty = ssd.hasDirty
         /\ <<ssd'.commandLocked, ssd'.displayOn, ssd'.dataMode>> =
              <<ssd.commandLocked, ssd.displayOn, ssd.dataMode>>
         /\ \A f \in ScalarFields : ssd'[f] = ssd[f]]_vars

\* two payload bytes were sent in CommandPhase to a device whose column
\* window had been set to 0..1 and that was never reset: nothing is stored,
\* nothing marked, and the cursor stands at the window's start
C33_Witness ==
    /\ last.op = "WriteData" /\ Len(last.args[1]) = 2
    /\ ~ssd.dataMode /\ ~written.all
    /\ ssd.columnStart = 0 /\ ssd.columnEnd = 1 /\ ssd.currentColumn = 0
    /\ ssd.currentRow = 0
    /\ ssd.vram = EmptyVRAM /\ ~ssd.hasDirty

\* the calls of the pixel path
PixelPathOps == {"SetPixel", "GetPixel", "WriteData", "MarkDirty", "ClearDirtyRegion"}

\* C34: the command path and the pixel path touch disjoint state:
\* ProcessCommand changes neither VRAM nor the dirty region, for any opcode
\* and arguments, and SetPixel, GetPixel, WriteData, MarkDirty and
\* ClearDirtyRegion change no configuration scalar and neither the lock flag
\* nor the display-on flag.
C34_DisjointPaths ==
    [][/\ last'.op = "ProcessCommand" =>
            /\ ssd'.vram = ssd.vram
            /\ ssd'.hasDirty = ssd.hasDirty
            /\ <<ssd'.dirtyX0, ssd'.dirtyY0, ssd'.dirtyX1, ssd'.dirtyY1>> =
                 <<ssd.dirtyX0, ssd.dirtyY0, ssd.dirtyX1, ssd.dirtyY1>>
       /\ last'.op \in PixelPathOps =>
            /\ \A f \in ScalarFields : ssd'[f] = ssd[f]
            /\ ssd'.commandLocked = ssd.commandLocked
            /\ ssd'.displayOn = ssd.displayOn]_vars

\* a contrast command was processed on an unlocked device holding a stored,
\* dirty pixel, and a pixel call before it had left the lock flag cleared
C34_Witness ==
    /\ last.op = "ProcessCommand" /\ last.args = <<CmdSetContrast, <<245>>>>
    /\ ssd.contrastLevel = 245
    /\ ~ssd.commandLocked
    /\ written.pts # {} /\ ssd.vram # EmptyVRAM /\ ssd.hasDirty

\* C35: after the renderer has rendered the device (RenderToImage) or a
\* FrameBuffer.Flush has completed, the device's dirty region is cleared:
\* GetDirtyRegion reports empty.
C35_ConsumerClearsDirty ==
    last.op \in {"RenderToImage", "FrameBuffer.Flush"} =>
      GetDirtyRegion(ssd) = EmptyMarker

\* C36: under every interleaving of Start and Stop calls with the loop
\* goroutines, at most one loop goroutine of the Animator is alive.
C36_OneLoop == Cardinality(AliveLoops(rt)) <= 1

\* C37: after Stop has returned on a running Animator, and unless Start is
\* called again, every loop goroutine eventually terminates.
C37_LoopTerminates ==
    rt.afterRunningStop ~>
      (~rt.afterRunningStop \/ (AliveLoops(rt) = {} /\ rt.spawns = 0))

\* C38: from the return of Stop until the next Start no animation function
\* and no onFrame callback is invoked and the frame count does not change,
\* whatever the loop goroutines do.
C38_QuietAfterStop ==
    [][(rt.afterStop /\ rt'.afterStop) =>
         /\ animHist' = animHist
         /\ anim'.frameCount = anim.frameCount]_vars

\* Stop has returned while a loop goroutine held a tick it had received; the
\* goroutine then called update, with an animation registered that an
\* earlier frame had invoked
C38_Witness ==
    /\ last.op = "update" /\ rt.afterStop
    /\ anim.animations = <<0>>
    /\ animHist.calls[0] = 1 /\ anim.frameCount = 1

\* C39: ParallelTween.Update returns true exactly when all of its tweens are
\* complete after the call, and the onComplete callback fires on the call
\* that completes them.
C39_ParallelReturn ==
    [][last'.op = "ParallelTween.Update" =>
         /\ (last'.val = 1) <=> ParIsComplete(par')
         /\ (~ParIsComplete(par) /\ ParIsComplete(par')) =>
              parHist'.onCompleteCalls = parHist.onCompleteCalls + 1]_vars

\* the nibble of VRAM that pixel (x, y) maps to
NibbleOf(s, x, y) ==
    <<PixelToByteOffsetNibble(s, x, y).byteOffset,
      PixelToByteOffsetNibble(s, x, y).nibbleIndex>>

\* C40: on every SSD1322 device of positive width and height every pixel of
\* the viewport maps to a byte offset inside the allocated VRAM, distinct
\* pixels of the viewport map to distinct nibbles, and SetPixel does not fail
\* on a pixel of the viewport.
C40_ViewportMapped ==
    /\ \A p \in GeomPoints :
         InViewport(ssd, p[1], p[2]) =>
           /\ NibbleOf(ssd, p[1], p[2])[1] < allocateVRAM(Height(ssd))
           /\ \A q \in GeomPoints :
                (InViewport(ssd, q[1], q[2]) /\ q # p) =>
                  NibbleOf(ssd, q[1], q[2]) # NibbleOf(ssd, p[1], p[2])
    /\ (last.op = "SetPixel" /\ InViewport(ssd, last.args[1], last.args[2])) =>
         ~last.err

=============================================================================
